---- MODULE Spec2Model ----
(***************************************************************************)
(* Model of core/knowledge_graph.py: the KnowledgeGraph builder, its       *)
(* entity normalisation, add_document, statistics and JSON persistence.    *)
(*                                                                         *)
(* A Python str is modelled as a tuple of one-character tokens, so that    *)
(* strip(), lower(), the base-name regex and the score are computed as     *)
(* the code computes them.  A token such as "U4E2D" stands for the single  *)
(* character with that code point.  Weights are written in tenths          *)
(* (1.5 is 15).  A Python dict, which keeps insertion order, is modelled   *)
(* as a record [keys |-> sequence of keys, val |-> function on the keys].  *)
(***************************************************************************)
EXTENDS Integers, Sequences, FiniteSets, TLC

VARIABLES
    graph,                   \* self.graph: [nodes: dict id -> attrs, edges: seq of edge records]
    document_entities,       \* self._document_entities: dict doc -> (category -> list)
    entity_counts,           \* self._entity_counts: category -> dict entity -> int
    entity_canonical_forms,  \* self._entity_canonical_forms: base name -> canonical form
    calls,                   \* history: the add_document calls made, in order
    norm_calls,              \* history: the _normalize_entity calls made, with what they returned
    file,                    \* the graph file on disk
    last,                    \* history: the last persistence operation and the state around it
    processor,               \* DocumentProcessor: [chunk_size, chunk_overlap]
    caller_documents,        \* the list of pages the caller passed, as the last call left it
    returned_chunks,         \* the list the last split_documents returned
    dp_calls,                \* history: the calls made on the processor, with what they returned
    parse_calls,             \* history: the _parse_llm_response calls made, with what they did
    extraction,              \* the run of extract_from_documents: its locals and where it stands
    retry,                   \* the run of _call_with_retry: its locals and where it stands
    session,                 \* st.session_state of the app, and the objects it holds
    queries                  \* history: the get_related_documents calls made, with what they returned

\* the knowledge graph builder and its file
kg_vars == <<graph, document_entities, entity_counts, entity_canonical_forms,
             calls, norm_calls, file, last>>

\* the document processor and the lists it is called with
dp_vars == <<processor, caller_documents, returned_chunks, dp_calls>>

\* the entity extractor, the embeddings client and the app
io_vars == <<parse_calls, extraction, retry, session, queries>>

vars == <<kg_vars, dp_vars, io_vars>>

----------------------------------------------------------------------------
(* Bounds of the model *)

MaxAdds == 3
MaxNorm == 3
MaxPersistAdds == 2
MaxPersistOps == 3

----------------------------------------------------------------------------
(* Characters and strings *)

CJKChars ==
    {"U5728", "U7EBF", "U5B66", "U4E60", "U4E0E", "U53CD", "U9988",
     "U7B2C", "U9875", "U53C2", "U8003", "U6587", "U732E", "U5F15", "U7528"}

\* '一' <= c <= '鿿'
IsCJK(c) == c \in CJKChars

\* the characters str.strip() removes
IsSpace(c) == c \in {" ", "\n", "\t", "\r"}

UpperChars ==
    {"A", "B", "C", "D", "E", "F", "G", "H", "I", "J", "K", "L", "M",
     "N", "O", "P", "Q", "R", "S", "T", "U", "V", "W", "X", "Y", "Z"}

LowerChars ==
    {"a", "b", "c", "d", "e", "f", "g", "h", "i", "j", "k", "l", "m",
     "n", "o", "p", "q", "r", "s", "t", "u", "v", "w", "x", "y", "z"}

Alphabet == <<"A", "B", "C", "D", "E", "F", "G", "H", "I", "J", "K", "L", "M",
              "N", "O", "P", "Q", "R", "S", "T", "U", "V", "W", "X", "Y", "Z">>

alphabet == <<"a", "b", "c", "d", "e", "f", "g", "h", "i", "j", "k", "l", "m",
              "n", "o", "p", "q", "r", "s", "t", "u", "v", "w", "x", "y", "z">>

\* str.lower(), one character
LowerChar(c) ==
    IF c \in UpperChars
    THEN alphabet[CHOOSE i \in 1..26 : Alphabet[i] = c]
    ELSE c

Lower(s) == [i \in 1..Len(s) |-> LowerChar(s[i])]

\* F(v), with v computed once.  TLC computes the argument of an operator and the
\* body of a LET definition again at each use when it counts the evaluations of
\* each expression; a variable bound over a set holds a value.
Bind(v, F(_)) == CHOOSE out \in {F(x) : x \in {v}} : TRUE

RECURSIVE LStrip(_)
LStrip(s) == IF s # <<>> /\ IsSpace(Head(s)) THEN LStrip(Tail(s)) ELSE s

RECURSIVE RStrip(_)
RStrip(s) ==
    IF s # <<>> /\ IsSpace(s[Len(s)]) THEN RStrip(SubSeq(s, 1, Len(s) - 1)) ELSE s

\* str.strip()
Strip(s) == RStrip(LStrip(s))

\* n copies of the character c
Rep(c, n) == [i \in 1..n |-> c]

\* the characters of the class [(\[（【] of the base-name regex
OpenBrackets == {"(", "[", "UFF08", "U3010"}

\* the longest prefix of s without an opening bracket: group 1 of ^([^(\[（【]+)
RECURSIVE BracketFreePrefix(_)
BracketFreePrefix(s) ==
    IF s = <<>> \/ Head(s) \in OpenBrackets
    THEN <<>>
    ELSE <<Head(s)>> \o BracketFreePrefix(Tail(s))

\* the base name without the strip() of the prefix
ExtractBaseNameNoStrip(entity_name) ==
    LET m == BracketFreePrefix(entity_name)
    IN  IF m # <<>> THEN Lower(m) ELSE Lower(entity_name)

\* KnowledgeGraph._extract_base_name
ExtractBaseName(entity_name) ==
    LET m == BracketFreePrefix(entity_name)
    IN  IF m # <<>> THEN Lower(Strip(m)) ELSE Lower(Strip(entity_name))

Min(a, b) == IF a < b THEN a ELSE b

HasChar(s, cs) == \E i \in 1..Len(s) : s[i] \in cs

\* score(name), the nested function of _normalize_entity and _rebuild_canonical_forms
Score(name) ==
    (IF \E i \in 1..Len(name) : IsCJK(name[i]) THEN 100 ELSE 0)
    + (IF HasChar(name, {"(", "UFF08"}) THEN 50 ELSE 0)
    + Min(Len(name), 80)

----------------------------------------------------------------------------
(* The canonical-form registry and _normalize_entity *)

\* d[k] = v on a dict held as a function
FnSet(f, k, v) == [x \in DOMAIN f \cup {k} |-> IF x = k THEN v ELSE f[x]]

EmptyFn == [x \in {} |-> <<>>]

\* a normalisation that lets a candidate of equal score replace the entry
NormalizeTieReplaces(reg, entity_name) ==
    IF entity_name = <<>>
    THEN [reg |-> reg, ret |-> entity_name]
    ELSE LET name == Strip(entity_name)
             base_name == ExtractBaseName(name)
         IN  IF base_name \in DOMAIN reg
             THEN IF Score(name) >= Score(reg[base_name])
                  THEN [reg |-> FnSet(reg, base_name, name), ret |-> name]
                  ELSE [reg |-> reg, ret |-> reg[base_name]]
             ELSE [reg |-> FnSet(reg, base_name, name), ret |-> name]

\* KnowledgeGraph._normalize_entity: the registry after the call and the value returned
NormalizeEntity(reg, entity_name) ==
    IF entity_name = <<>>
    THEN [reg |-> reg, ret |-> entity_name]
    ELSE LET name == Strip(entity_name)
             base_name == ExtractBaseName(name)
         IN  IF base_name \in DOMAIN reg
             THEN IF Score(name) > Score(reg[base_name])
                  THEN [reg |-> FnSet(reg, base_name, name), ret |-> name]
                  ELSE [reg |-> reg, ret |-> reg[base_name]]
             ELSE [reg |-> FnSet(reg, base_name, name), ret |-> name]

----------------------------------------------------------------------------
(* Entity strings the calls are made with *)

OLAF == <<"O", "L", "A", "F">>

\* "OLAF (在线学习与反馈)"
OLAF_zh == OLAF \o <<" ", "(", "U5728", "U7EBF", "U5B66", "U4E60", "U4E0E", "U53CD", "U9988", ")">>

OLAF_a == OLAF \o <<" ", "(", "a", ")">>

OLAF_b == OLAF \o <<" ", "(", "b", ")">>

\* "olaf [ab]": an annotation in square brackets
olaf_sq == <<"o", "l", "a", "f", "[", "a", "b", "]">>

\* " OLAF": padded
OLAF_pad == <<" ">> \o OLAF

\* 80 and 81 characters long, same base name "v"
V80 == <<"V", "(">> \o Rep("a", 77) \o <<")">>

V81 == <<"V", "(">> \o Rep("b", 78) \o <<")">>

Transformer == <<"T", "r", "a", "n", "s", "f", "o", "r", "m", "e", "r">>

NormInputs == {OLAF, OLAF_zh, OLAF_a, OLAF_b, olaf_sq, OLAF_pad, V80, V81, <<>>, <<" ">>}

----------------------------------------------------------------------------
(* Python dicts, which keep the insertion order of their keys *)

EmptyDict == [keys |-> <<>>, val |-> EmptyFn]

DictHas(d, k) == k \in DOMAIN d.val

\* d[k] = v: a new key goes last, an old key keeps its place
DictSet(d, k, v) ==
    [keys |-> IF DictHas(d, k) THEN d.keys ELSE Append(d.keys, k),
     val  |-> FnSet(d.val, k, v)]

\* d.get(k, default)
DictGet(d, k, default) == IF DictHas(d, k) THEN d.val[k] ELSE default

\* list(dict.fromkeys(list)): first occurrences, in order
RECURSIVE Dedupe(_)
Dedupe(list) ==
    IF list = <<>> THEN <<>>
    ELSE LET init == Dedupe(SubSeq(list, 1, Len(list) - 1))
             x == list[Len(list)]
         IN  IF \E i \in 1..Len(init) : init[i] = x THEN init ELSE Append(init, x)

----------------------------------------------------------------------------
(* Document names *)

\* PurePosixPath(doc_name).name: what follows the last "/"
RECURSIVE PathName(_)
PathName(s) ==
    IF \E i \in 1..Len(s) : s[i] = "/"
    THEN PathName(Tail(s))
    ELSE s

\* str.rfind("."), 1-based, 0 when absent
RFindDot(s) ==
    IF \E i \in 1..Len(s) : s[i] = "."
    THEN CHOOSE i \in 1..Len(s) : s[i] = "." /\ \A j \in (i + 1)..Len(s) : s[j] # "."
    ELSE 0

\* Path(doc_name).stem: the final path component without its last suffix
PathStem(doc_name) ==
    LET name == PathName(doc_name)
        i == RFindDot(name)
    IN  IF 1 < i /\ i < Len(name) THEN SubSeq(name, 1, i - 1) ELSE name

\* add_document, line 149: the stem if the name has a "/" or a "\", else the name itself
CleanDocName(doc_name) ==
    IF HasChar(doc_name, {"/", "\\"}) THEN PathStem(doc_name) ELSE doc_name

----------------------------------------------------------------------------
(* Node and edge types *)

NODE_TYPE_DOCUMENT == "document"

\* the five categories in the order add_document walks them (lines 170-222)
GraphOrder == <<"keywords", "methods", "datasets", "fields", "applications">>

\* the keys of an extraction result, in the order EntityExtractor builds them
ExtractorOrder == <<"keywords", "methods", "fields", "datasets", "applications">>

Categories == {GraphOrder[i] : i \in 1..Len(GraphOrder)}

\* NODE_TYPE_* passed to _add_entity_node for a category
NodeTypeOf(cat) ==
    CASE cat = "keywords" -> "keyword"
      [] cat = "methods" -> "method"
      [] cat = "datasets" -> "dataset"
      [] cat = "fields" -> "field"
      [] cat = "applications" -> "application"

\* EDGE_* passed to add_edge for a category
EdgeTypeOf(cat) ==
    CASE cat = "keywords" -> "CONTAINS_KEYWORD"
      [] cat = "methods" -> "USES_METHOD"
      [] cat = "datasets" -> "USES_DATASET"
      [] cat = "fields" -> "BELONGS_TO_FIELD"
      [] cat = "applications" -> "HAS_APPLICATION"

\* weight passed to add_edge for a category, in tenths
WeightOf(cat) ==
    CASE cat = "keywords" -> 10
      [] cat = "methods" -> 15
      [] cat = "datasets" -> 12
      [] cat = "fields" -> 13
      [] cat = "applications" -> 11

\* icon_map of _add_entity_node
IconOf(node_type) ==
    CASE node_type = "keyword" -> "ICON_TAG"
      [] node_type = "method" -> "ICON_GEAR"
      [] node_type = "dataset" -> "ICON_CHART"
      [] node_type = "field" -> "ICON_BOOK"
      [] node_type = "application" -> "ICON_LAPTOP"
      [] OTHER -> ""

----------------------------------------------------------------------------
(* networkx.Graph: nodes is a dict id -> attributes, edges a list of records *)
(* [u, v, edge_type, weight] with at most one record per unordered pair.     *)
(* The order of the list is the order the edges were created in; networkx    *)
(* walks edges by adjacency, an order nothing modelled here reads.           *)

EmptyGraph == [nodes |-> EmptyDict, edges |-> <<>>]

\* Graph.add_node(n, **attrs): a new node, or new attribute values on an old node
GraphAddNode(g, n, attrs) == [g EXCEPT !.nodes = DictSet(g.nodes, n, attrs)]

SameEdge(e, u, v) == (e.u = u /\ e.v = v) \/ (e.u = v /\ e.v = u)

HasEdge(g, u, v) == \E i \in 1..Len(g.edges) : SameEdge(g.edges[i], u, v)

\* Graph.add_edge(u, v, **attrs) between nodes of the graph: a new edge, or the
\* attributes of the edge that exists overwritten
GraphAddEdge(g, u, v, edge_type, weight) ==
    IF HasEdge(g, u, v)
    THEN [g EXCEPT !.edges = [i \in 1..Len(g.edges) |->
              IF SameEdge(g.edges[i], u, v)
              THEN [g.edges[i] EXCEPT !.edge_type = edge_type, !.weight = weight]
              ELSE g.edges[i]]]
    ELSE [g EXCEPT !.edges = Append(g.edges,
              [u |-> u, v |-> v, edge_type |-> edge_type, weight |-> weight])]

\* KnowledgeGraph._add_entity_node
AddEntityNode(g, entity_name, entity_type) ==
    IF DictHas(g.nodes, entity_name) THEN g
    ELSE GraphAddNode(g, entity_name,
             [node_type |-> entity_type, label |-> entity_name,
              title |-> <<IconOf(entity_type), " ">> \o entity_name])

----------------------------------------------------------------------------
(* The builder: the four fields of a KnowledgeGraph instance as one record *)

EmptyCounts == [c \in Categories |-> EmptyDict]

\* KnowledgeGraph.__init__
NewBuilder ==
    [graph |-> EmptyGraph,
     document_entities |-> EmptyDict,
     entity_counts |-> EmptyCounts,
     entity_canonical_forms |-> EmptyFn]

Builder ==
    [graph |-> graph,
     document_entities |-> document_entities,
     entity_counts |-> entity_counts,
     entity_canonical_forms |-> entity_canonical_forms]

\* [self._normalize_entity(e) for e in entity_list if e], the registry threaded through
RECURSIVE NormalizeList(_, _)
NormalizeList(reg, entity_list) ==
    IF entity_list = <<>> THEN [reg |-> reg, out |-> <<>>]
    ELSE LET e == Head(entity_list)
         IN  IF e = <<>>
             THEN NormalizeList(reg, Tail(entity_list))
             ELSE LET n == NormalizeEntity(reg, e)
                      rest == NormalizeList(n.reg, Tail(entity_list))
                  IN  [reg |-> rest.reg, out |-> <<n.ret>> \o rest.out]

\* add_document, lines 152-156: every list of the record normalised and deduplicated,
\* the keys taken in the order of the record
RECURSIVE NormalizeAll(_, _, _)
NormalizeAll(reg, entities, i) ==
    IF i > Len(entities.keys) THEN [reg |-> reg, out |-> EmptyDict]
    ELSE LET k == entities.keys[i]
             n == NormalizeList(reg, entities.val[k])
             rest == NormalizeAll(n.reg, entities, i + 1)
         IN  [reg |-> rest.reg,
              out |-> [keys |-> <<k>> \o rest.out.keys,
                       val  |-> FnSet(rest.out.val, k, Dedupe(n.out))]]

\* the (category, entity) pairs of lines 170-222, in the order they are walked
RECURSIVE EntityPairs(_, _)
EntityPairs(normalized_entities, i) ==
    IF i > Len(GraphOrder) THEN <<>>
    ELSE LET cat == GraphOrder[i]
             list == DictGet(normalized_entities, cat, <<>>)
         IN  [j \in 1..Len(list) |-> [cat |-> cat, e |-> list[j]]]
             \o EntityPairs(normalized_entities, i + 1)

\* one pass of a loop body of lines 170-222: the entity node, the edge, the counter
AddEntity(b, doc_name, cat, e) ==
    LET g1 == AddEntityNode(b.graph, e, NodeTypeOf(cat))
        g2 == GraphAddEdge(g1, doc_name, e, EdgeTypeOf(cat), WeightOf(cat))
        old == DictGet(b.entity_counts[cat], e, 0)
    IN  [b EXCEPT !.graph = g2,
                  !.entity_counts[cat] = DictSet(b.entity_counts[cat], e, old + 1)]

RECURSIVE AddEntities(_, _, _)
AddEntities(b, doc_name, pairs) ==
    IF pairs = <<>> THEN b
    ELSE AddEntities(AddEntity(b, doc_name, Head(pairs).cat, Head(pairs).e),
                     doc_name, Tail(pairs))

\* KnowledgeGraph.add_document
AddDocumentOp(b, raw_doc_name, entities) ==
    LET doc_name == CleanDocName(raw_doc_name)
        n == NormalizeAll(b.entity_canonical_forms, entities, 1)
        b1 == [b EXCEPT !.entity_canonical_forms = n.reg,
                        !.document_entities = DictSet(b.document_entities, doc_name, n.out)]
        b2 == [b1 EXCEPT !.graph = GraphAddNode(b1.graph, doc_name,
                   [node_type |-> NODE_TYPE_DOCUMENT, label |-> doc_name,
                    title |-> <<"ICON_PAGE", " ">> \o doc_name])]
    IN  AddEntities(b2, doc_name, EntityPairs(n.out, 1))

----------------------------------------------------------------------------
(* Statistics *)

\* list(d.items())
Items(d) == [i \in 1..Len(d.keys) |-> [name |-> d.keys[i], count |-> d.val[d.keys[i]]]]

\* x put into a list sorted by count, largest first, behind the items of equal count
RECURSIVE InsertByCount(_, _)
InsertByCount(sorted, x) ==
    IF sorted = <<>> THEN <<x>>
    ELSE IF Head(sorted).count >= x.count
         THEN <<Head(sorted)>> \o InsertByCount(Tail(sorted), x)
         ELSE <<x>> \o sorted

\* sorted(items, key=lambda x: x[1], reverse=True): stable
RECURSIVE SortByCount(_)
SortByCount(items) ==
    IF items = <<>> THEN <<>>
    ELSE InsertByCount(SortByCount(SubSeq(items, 1, Len(items) - 1)), items[Len(items)])

\* list[:n]
Take(list, n) == SubSeq(list, 1, Min(n, Len(list)))

\* get_document_nodes / get_entity_nodes(entity_type): the nodes of a type, in node order
NodesOfType(g, node_type) ==
    SelectSeq(g.nodes.keys, LAMBDA n : g.nodes.val[n].node_type = node_type)

\* KnowledgeGraph.get_all_entities_by_type
AllEntitiesByType(b, cat) == SortByCount(Items(b.entity_counts[cat]))

\* KnowledgeGraph.get_statistics
Statistics(b) ==
    [total_nodes |-> Len(b.graph.nodes.keys),
     total_edges |-> Len(b.graph.edges),
     document_count |-> Len(NodesOfType(b.graph, NODE_TYPE_DOCUMENT)),
     keyword_count |-> Len(NodesOfType(b.graph, "keyword")),
     method_count |-> Len(NodesOfType(b.graph, "method")),
     dataset_count |-> Len(NodesOfType(b.graph, "dataset")),
     field_count |-> Len(NodesOfType(b.graph, "field")),
     application_count |-> Len(NodesOfType(b.graph, "application")),
     top_keywords |-> Take(SortByCount(Items(b.entity_counts["keywords"])), 5),
     top_methods |-> Take(SortByCount(Items(b.entity_counts["methods"])), 5),
     top_fields |-> Take(SortByCount(Items(b.entity_counts["fields"])), 3),
     top_datasets |-> Take(SortByCount(Items(b.entity_counts["datasets"])), 5),
     documents |-> NodesOfType(b.graph, NODE_TYPE_DOCUMENT),
     all_keywords |-> AllEntitiesByType(b, "keywords"),
     all_methods |-> AllEntitiesByType(b, "methods"),
     all_datasets |-> AllEntitiesByType(b, "datasets"),
     all_fields |-> AllEntitiesByType(b, "fields"),
     all_applications |-> AllEntitiesByType(b, "applications"),
     document_entities |-> b.document_entities]

----------------------------------------------------------------------------
(* Persistence.  The file is [kind |-> "missing"], [kind |-> "invalid"] (not    *)
(* JSON) or a JSON document; a JSON object of the "nodes" or "edges" list       *)
(* carries the set of its keys, so that a record that lacks a key can be told.  *)

NodeKeys == {"id", "node_type", "label", "title"}

EdgeKeys == {"source", "target", "edge_type", "weight"}

\* save, lines 488-494: {"id": node, **attrs} for every node
SaveNodes(g) ==
    [i \in 1..Len(g.nodes.keys) |->
        LET n == g.nodes.keys[i]
        IN  [keys |-> NodeKeys, id |-> n,
             node_type |-> g.nodes.val[n].node_type,
             label |-> g.nodes.val[n].label,
             title |-> g.nodes.val[n].title]]

\* save, lines 495-502: {"source": u, "target": v, **attrs} for every edge
SaveEdges(g) ==
    [i \in 1..Len(g.edges) |->
        [keys |-> EdgeKeys, source |-> g.edges[i].u, target |-> g.edges[i].v,
         edge_type |-> g.edges[i].edge_type, weight |-> g.edges[i].weight]]

\* KnowledgeGraph.save: the file it writes
SaveOp(b) ==
    [kind |-> "json",
     nodes |-> SaveNodes(b.graph),
     edges |-> SaveEdges(b.graph),
     document_entities |-> b.document_entities,
     entity_counts |-> b.entity_counts,
     has_canonical_forms |-> TRUE,
     entity_canonical_forms |-> b.entity_canonical_forms]

\* a load loop that adds the nodes without their attributes
RECURSIVE LoadNodesNoType(_, _)
LoadNodesNoType(g, recs) ==
    IF recs = <<>> THEN [g |-> g, ok |-> TRUE]
    ELSE IF "id" \notin Head(recs).keys THEN [g |-> g, ok |-> FALSE]
    ELSE LoadNodesNoType(
             GraphAddNode(g, Head(recs).id,
                 [node_type |-> "", label |-> Head(recs).label, title |-> Head(recs).title]),
             Tail(recs))

\* load, lines 542-544: node_data.pop("id") raises KeyError on a record without
\* "id"; the nodes added so far stay in the new graph
RECURSIVE LoadNodes(_, _)
LoadNodes(g, recs) ==
    IF recs = <<>> THEN [g |-> g, ok |-> TRUE]
    ELSE IF "id" \notin Head(recs).keys THEN [g |-> g, ok |-> FALSE]
    ELSE LoadNodes(
             GraphAddNode(g, Head(recs).id,
                 [node_type |-> Head(recs).node_type, label |-> Head(recs).label,
                  title |-> Head(recs).title]),
             Tail(recs))

\* load, lines 547-550: edge_data.pop("source") / pop("target") raise KeyError
RECURSIVE LoadEdges(_, _)
LoadEdges(g, recs) ==
    IF recs = <<>> THEN [g |-> g, ok |-> TRUE]
    ELSE IF {"source", "target"} \ Head(recs).keys # {} THEN [g |-> g, ok |-> FALSE]
    ELSE LoadEdges(
             GraphAddEdge(g, Head(recs).source, Head(recs).target,
                          Head(recs).edge_type, Head(recs).weight),
             Tail(recs))

\* _rebuild_canonical_forms, lines 369-372: every stored list, document after
\* document, concatenated
RECURSIVE AllStoredEntities(_, _)
AllStoredEntities(doc_ents, i) ==
    IF i > Len(doc_ents.keys) THEN <<>>
    ELSE LET ents == doc_ents.val[doc_ents.keys[i]]
             RECURSIVE Lists(_)
             Lists(j) == IF j > Len(ents.keys) THEN <<>>
                         ELSE ents.val[ents.keys[j]] \o Lists(j + 1)
         IN  Lists(1) \o AllStoredEntities(doc_ents, i + 1)

\* a rebuild that keeps the first form seen of a base name
RECURSIVE RebuildFirstWins(_, _)
RebuildFirstWins(reg, all_entities) ==
    IF all_entities = <<>> THEN reg
    ELSE LET entity == Head(all_entities)
             base_name == ExtractBaseName(entity)
         IN  IF base_name \in DOMAIN reg
             THEN RebuildFirstWins(reg, Tail(all_entities))
             ELSE RebuildFirstWins(FnSet(reg, base_name, entity), Tail(all_entities))

\* _rebuild_canonical_forms, lines 375-393
RECURSIVE RebuildFold(_, _)
RebuildFold(reg, all_entities) ==
    IF all_entities = <<>> THEN reg
    ELSE LET entity == Head(all_entities)
             base_name == ExtractBaseName(entity)
         IN  IF base_name \in DOMAIN reg
             THEN IF Score(entity) > Score(reg[base_name])
                  THEN RebuildFold(FnSet(reg, base_name, entity), Tail(all_entities))
                  ELSE RebuildFold(reg, Tail(all_entities))
             ELSE RebuildFold(FnSet(reg, base_name, entity), Tail(all_entities))

\* KnowledgeGraph._rebuild_canonical_forms
RebuildCanonicalForms(doc_ents) == RebuildFold(EmptyFn, AllStoredEntities(doc_ents, 1))

\* KnowledgeGraph.load: the builder after the call and the value returned.  The
\* new graph is assigned to self.graph before the records are read, so a KeyError
\* leaves the builder with the part of the graph read so far.
LoadOp(b, f) ==
    IF f.kind # "json" THEN [b |-> b, ok |-> FALSE]
    ELSE LET n == LoadNodes(EmptyGraph, f.nodes)
             e == LoadEdges(n.g, f.edges)
             reg == IF f.has_canonical_forms THEN f.entity_canonical_forms ELSE EmptyFn
         IN  IF ~n.ok THEN [b |-> [b EXCEPT !.graph = n.g], ok |-> FALSE]
             ELSE IF ~e.ok THEN [b |-> [b EXCEPT !.graph = e.g], ok |-> FALSE]
             ELSE [b |-> [graph |-> e.g,
                          document_entities |-> f.document_entities,
                          entity_counts |-> f.entity_counts,
                          entity_canonical_forms |->
                              IF DOMAIN reg = {}
                              THEN RebuildCanonicalForms(f.document_entities)
                              ELSE reg],
                   ok |-> TRUE]

----------------------------------------------------------------------------
(* The calls add_document is made with *)

\* an extraction result: the five keys in the extractor's order
Ents(keywords, methods, fields, datasets, applications) ==
    [keys |-> ExtractorOrder,
     val  |-> [c \in Categories |->
                 CASE c = "keywords" -> keywords
                   [] c = "methods" -> methods
                   [] c = "fields" -> fields
                   [] c = "datasets" -> datasets
                   [] c = "applications" -> applications]]

\* "p", also the name of a document
P == <<"p">>

DocNames ==
    { <<"p">>,                                   \* "p"
      <<"p", ".", "p", "d", "f">>,               \* "p.pdf"
      <<"d", "/", "p", ".", "p", "d", "f">> }    \* "d/p.pdf"

Records ==
    { Ents(<<>>, <<>>, <<>>, <<>>, <<>>),
      Ents(<<OLAF>>, <<>>, <<>>, <<>>, <<>>),
      Ents(<<OLAF_zh>>, <<>>, <<>>, <<>>, <<>>),
      Ents(<<OLAF_a, OLAF>>, <<OLAF>>, <<>>, <<>>, <<>>),
      Ents(<<OLAF_b, <<>>, OLAF_pad>>, <<>>, <<>>, <<Transformer>>, <<>>),
      Ents(<<P>>, <<Transformer>>, <<Transformer>>, <<>>, <<P, P>>),
      Ents(<<>>, <<Transformer>>, <<>>, <<>>, <<>>) }

\* the calls made in the runs that save and load
PersistCalls ==
    { [doc_name |-> <<"p">>, entities |-> Ents(<<OLAF>>, <<>>, <<>>, <<>>, <<>>)],
      [doc_name |-> <<"p", ".", "p", "d", "f">>,
       entities |-> Ents(<<OLAF_zh>>, <<>>, <<>>, <<>>, <<>>)],
      [doc_name |-> <<"p", ".", "p", "d", "f">>,
       entities |-> Ents(<<OLAF_a, OLAF>>, <<OLAF>>, <<>>, <<>>, <<>>)],
      [doc_name |-> <<"p">>,
       entities |-> Ents(<<P>>, <<Transformer>>, <<Transformer>>, <<>>, <<P, P>>)] }

----------------------------------------------------------------------------
(* Initial state and actions *)

NoFile == [kind |-> "missing"]

\* last.ops: the operations so far; last.ok and last.pre: what the last load
\* returned and the builder it was called on
NoLast == [ops |-> <<>>, ok |-> TRUE, pre |-> NewBuilder]

\* config.py: the defaults of DocumentProcessor.__init__
CHUNK_SIZE == 600
CHUNK_OVERLAP == 100

\* extract_from_documents has not been called.  pc is where the call stands:
\* "batch" before the llm.batch of the prompts from all_prompts[i + 1] on, "retry"
\* before the llm.invoke of the k-th prompt of that batch, "returned" after the
\* return.  f is the place of the file in file_docs; added[f][p] counts the
\* updates of the aggregator of that file with a response to its p-th prompt,
\* and llm is the calls of the LLM so far: both are history.
NoExtraction ==
    [pc |-> "idle", runs |-> 0, documents |-> <<>>, file_docs |-> EmptyDict, f |-> 0,
     all_prompts |-> <<>>, i |-> 0, k |-> 0, aggregator |-> <<>>,
     results |-> EmptyDict, added |-> <<>>, llm |-> <<>>]

\* _call_with_retry has not been called.  pc is where the call stands: "attempt"
\* inside func, "sleeping" inside time.sleep, "returned" or "raised" after it.
\* attempt and last_error are its locals; runs, calls (the calls of func), errors
\* (what func raised) and waits (what time.sleep was given) are history.
NoRetry ==
    [pc |-> "idle", runs |-> 0, max_retries |-> 0, retry_delay |-> 0, attempt |-> 0,
     last_error |-> <<>>, calls |-> 0, errors |-> <<>>, waits |-> <<>>,
     result |-> <<>>, raised |-> <<>>]

\* Python's None
None == [none |-> TRUE]

\* st.session_state after init_session_state, and the Chroma collection on disk.
\* uploads and questions count the handler runs, asked is what each
\* handle_question did: the three are history.
NoSession ==
    [vector_store_manager |-> None, chat_history |-> <<>>, documents_loaded |-> FALSE,
     uploaded_files_info |-> <<>>, knowledge_graph |-> NewBuilder,
     entities_extracted |-> FALSE, processed_chunks |-> <<>>,
     collection |-> {}, uploads |-> 0, questions |-> 0, asked |-> <<>>]

\* a new KnowledgeGraph, no file yet
InitGraph ==
    /\ graph = NewBuilder.graph
    /\ document_entities = NewBuilder.document_entities
    /\ entity_counts = NewBuilder.entity_counts
    /\ entity_canonical_forms = NewBuilder.entity_canonical_forms
    /\ calls = <<>>
    /\ norm_calls = <<>>
    /\ file = NoFile
    /\ last = NoLast

\* a DocumentProcessor(chunk_size, chunk_overlap) that has not been called
InitProcessor(chunk_size, chunk_overlap) ==
    /\ processor = [chunk_size |-> chunk_size, chunk_overlap |-> chunk_overlap]
    /\ caller_documents = <<>>
    /\ returned_chunks = <<>>
    /\ dp_calls = <<>>

\* no call made yet on the extractor, the embeddings client or the app
InitIO ==
    /\ parse_calls = <<>>
    /\ extraction = NoExtraction
    /\ retry = NoRetry
    /\ session = NoSession
    /\ queries = <<>>

Init ==
    /\ InitGraph
    /\ InitProcessor(CHUNK_SIZE, CHUNK_OVERLAP)
    /\ InitIO

SetBuilder(b) ==
    /\ graph' = b.graph
    /\ document_entities' = b.document_entities
    /\ entity_counts' = b.entity_counts
    /\ entity_canonical_forms' = b.entity_canonical_forms

Did(op) == [last EXCEPT !.ops = Append(last.ops, op)]

\* a call of add_document(doc_name, entities)
AddDocument ==
    /\ Len(calls) < MaxAdds
    /\ \E doc_name \in DocNames, entities \in Records :
         /\ SetBuilder(AddDocumentOp(Builder, doc_name, entities))
         /\ calls' = Append(calls, [doc_name |-> doc_name, entities |-> entities])
    /\ last' = Did("add")
    /\ UNCHANGED <<norm_calls, file, dp_vars, io_vars>>

\* a call of _normalize_entity(entity_name) on the builder
Normalize ==
    /\ Len(norm_calls) < MaxNorm
    /\ \E entity_name \in NormInputs :
         LET n == NormalizeEntity(entity_canonical_forms, entity_name)
         IN  /\ entity_canonical_forms' = n.reg
             /\ norm_calls' = Append(norm_calls,
                    [arg |-> entity_name, ret |-> n.ret, reg |-> n.reg])
    /\ UNCHANGED <<graph, document_entities, entity_counts, calls, file, last, dp_vars, io_vars>>

PersistOps == Len(SelectSeq(last.ops, LAMBDA op : op # "add"))

\* the file is as save() has just written it
JustSaved == last.ops # <<>> /\ last.ops[Len(last.ops)] = "save"

\* add_document in the runs that save and load
AddDocumentP ==
    /\ Len(calls) < MaxPersistAdds
    /\ \E call \in PersistCalls :
         /\ SetBuilder(AddDocumentOp(Builder, call.doc_name, call.entities))
         /\ calls' = Append(calls, call)
    /\ last' = Did("add")
    /\ UNCHANGED <<norm_calls, file, dp_vars, io_vars>>

\* a call of save()
Save ==
    /\ PersistOps < MaxPersistOps
    /\ file' = SaveOp(Builder)
    /\ last' = Did("save")
    /\ UNCHANGED <<graph, document_entities, entity_counts, entity_canonical_forms,
                   calls, norm_calls, dp_vars, io_vars>>

\* a call of load()
Load ==
    /\ PersistOps < MaxPersistOps
    /\ LET r == LoadOp(Builder, file)
       IN  /\ SetBuilder(r.b)
           /\ last' = [ops |-> Append(last.ops, "load"), ok |-> r.ok, pre |-> Builder]
    /\ UNCHANGED <<calls, norm_calls, file, dp_vars, io_vars>>

\* the environment: the file is overwritten with something that is not JSON
FileGarbled ==
    /\ PersistOps < MaxPersistOps
    /\ JustSaved
    /\ file' = [kind |-> "invalid"]
    /\ last' = Did("garble")
    /\ UNCHANGED <<graph, document_entities, entity_counts, entity_canonical_forms,
                   calls, norm_calls, dp_vars, io_vars>>

\* the environment: one node record of the file loses its "id"
FileNodeLosesId ==
    /\ PersistOps < MaxPersistOps
    /\ JustSaved
    /\ \E i \in 1..Len(file.nodes) :
         /\ "id" \in file.nodes[i].keys
         /\ file' = [file EXCEPT !.nodes[i].keys = @ \ {"id"}]
    /\ last' = Did("drop_id")
    /\ UNCHANGED <<graph, document_entities, entity_counts, entity_canonical_forms,
                   calls, norm_calls, dp_vars, io_vars>>

\* the environment: one edge record of the file loses its "source"
FileEdgeLosesSource ==
    /\ PersistOps < MaxPersistOps
    /\ JustSaved
    /\ \E i \in 1..Len(file.edges) :
         /\ "source" \in file.edges[i].keys
         /\ file' = [file EXCEPT !.edges[i].keys = @ \ {"source"}]
    /\ last' = Did("drop_source")
    /\ UNCHANGED <<graph, document_entities, entity_counts, entity_canonical_forms,
                   calls, norm_calls, dp_vars, io_vars>>

\* the environment: the file is of the older format, without "entity_canonical_forms"
FileOlderFormat ==
    /\ PersistOps < MaxPersistOps
    /\ JustSaved
    /\ file' = [file EXCEPT !.has_canonical_forms = FALSE]
    /\ last' = Did("older_format")
    /\ UNCHANGED <<graph, document_entities, entity_counts, entity_canonical_forms,
                   calls, norm_calls, dp_vars, io_vars>>

Next == AddDocument

Spec == Init /\ [][Next]_vars

NextNorm == Normalize

SpecNorm == Init /\ [][NextNorm]_vars

NextPersist ==
    \/ AddDocumentP
    \/ Save
    \/ Load
    \/ FileGarbled
    \/ FileNodeLosesId
    \/ FileEdgeLosesSource
    \/ FileOlderFormat

SpecPersist == Init /\ [][NextPersist]_vars

----------------------------------------------------------------------------
(* Claims about add_document, checked under Spec *)

Nodes == DOMAIN graph.nodes.val

NodeType(n) == graph.nodes.val[n].node_type

Edges == {graph.edges[i] : i \in 1..Len(graph.edges)}

\* the nodes add_document has attached to a document as an entity
EntityEnds == {e.v : e \in Edges}

IncidentEdges(n) == {i \in 1..Len(graph.edges) : graph.edges[i].u = n \/ graph.edges[i].v = n}

InList(x, list) == \E i \in 1..Len(list) : list[i] = x

\* C1: all entity mentions that share a base name are represented by exactly one
\* entity node, whatever the order in which the variants arrive.
C1_OneNodePerBaseName ==
    \A n1, n2 \in EntityEnds :
        ExtractBaseName(n1) = ExtractBaseName(n2) => n1 = n2

\* C2: when two different documents both contain the same entity string in the same
\* category, that entity has one node with exactly two incident edges and its
\* counter in the category is 2.  Stated for two documents with different node
\* identities and an entity string that is trimmed and is no document's name.
C2_SharedEntityTwoEdges ==
    Len(calls) = 2 =>
        \A cat \in Categories :
            \A k \in 1..Len(calls[1].entities.val[cat]) :
                LET e == calls[1].entities.val[cat][k]
                    d1 == CleanDocName(calls[1].doc_name)
                    d2 == CleanDocName(calls[2].doc_name)
                IN  ( /\ InList(e, calls[2].entities.val[cat])
                      /\ d1 # d2
                      /\ e # <<>> /\ Strip(e) = e
                      /\ e \notin {d1, d2} )
                    => /\ e \in Nodes
                       /\ Cardinality(IncidentEdges(e)) = 2
                       /\ DictGet(entity_counts[cat], e, 0) = 2

\* the first category, in the order add_document walks them, whose stored list of
\* the document holds e
FirstCategoryOf(doc, e) ==
    LET idx == {i \in 1..Len(GraphOrder) :
                   InList(e, DictGet(document_entities.val[doc], GraphOrder[i], <<>>))}
    IN  GraphOrder[CHOOSE i \in idx : \A j \in idx : i <= j]

\* C5: add_document adds the edge between a document and an entity only if none
\* exists yet: an edge keeps the edge_type and weight it was created with, within
\* one call (an entity under two categories) and across calls (a document added again).
C5_EdgeKeepsCreationAttrs ==
    /\ [](Len(calls) = 1 =>
            \A e \in Edges :
                /\ e.edge_type = EdgeTypeOf(FirstCategoryOf(e.u, e.v))
                /\ e.weight = WeightOf(FirstCategoryOf(e.u, e.v)))
    /\ [][\A i \in 1..Len(graph.edges) : graph'.edges[i] = graph.edges[i]]_vars

\* C6: every edge joins exactly one document node and one node of an entity type;
\* no edge joins two documents, two entities, or a node to itself.
C6_EdgesJoinDocumentAndEntity ==
    \A e \in Edges :
        /\ e.u # e.v
        /\ Cardinality({n \in {e.u, e.v} : NodeType(n) = NODE_TYPE_DOCUMENT}) = 1

\* C7: the document node created for doc_name is doc_name with its directory path
\* and its file extension removed, with or without a path separator in doc_name.
C7_DocNodeIsStem ==
    \A k \in 1..Len(calls) :
        LET id == PathStem(calls[k].doc_name)
        IN  /\ DictHas(document_entities, id)
            /\ id \in Nodes

----------------------------------------------------------------------------
(* Claims about _normalize_entity, checked under SpecNorm *)

\* C3 as the spec states it: the two calls, in either order, both return the
\* annotated form.
C3_BothCallsReturnAnnotated ==
    ( /\ Len(norm_calls) >= 2
      /\ {norm_calls[1].arg, norm_calls[2].arg} = {OLAF, OLAF_zh} )
    => /\ norm_calls[1].ret = OLAF_zh
       /\ norm_calls[2].ret = OLAF_zh

\* C3 amended: on a fresh builder normalize("OLAF") returns "OLAF" and the following
\* normalize of the annotated form returns the annotated form; in the opposite
\* order both calls return the annotated form; in either order the registry entry
\* of "olaf" after the two calls is the annotated form.
C3_AnnotatedWinsAfterBoth ==
    ( /\ Len(norm_calls) >= 2
      /\ {norm_calls[1].arg, norm_calls[2].arg} = {OLAF, OLAF_zh} )
    => /\ norm_calls[1].ret = norm_calls[1].arg
       /\ norm_calls[2].ret = OLAF_zh
       /\ DOMAIN norm_calls[2].reg = {Lower(OLAF)}
       /\ norm_calls[2].reg[Lower(OLAF)] = OLAF_zh

C3_Witness ==
    /\ Len(norm_calls) = 2
    /\ norm_calls[1].arg = OLAF /\ norm_calls[1].ret = OLAF
    /\ norm_calls[2].arg = OLAF_zh /\ norm_calls[2].ret = OLAF_zh

\* the score as the claim words it
C4_Score(name) ==
    (IF \E i \in 1..Len(name) : IsCJK(name[i]) THEN 100 ELSE 0)
    + (IF \E i \in 1..Len(name) : name[i] \in {"(", "UFF08"} THEN 50 ELSE 0)
    + (IF Len(name) < 80 THEN Len(name) ELSE 80)

\* among the calls idx, the candidate of the earliest call of maximal score
C4_EarliestBest(cand, idx) ==
    LET best == {i \in idx : \A j \in idx : C4_Score(cand[j]) <= C4_Score(cand[i])}
    IN  cand[CHOOSE i \in best : \A j \in best : i <= j]

\* C4 as the spec states it, the candidates being the strings normalize is called
\* with: after every call the entry of the candidate's base name exists, is the
\* earliest candidate of maximal score, and is what the call returned.
C4_EntryIsEarliestMaxOfArguments ==
    \A k \in 1..Len(norm_calls) :
        LET cand == [i \in 1..Len(norm_calls) |-> norm_calls[i].arg]
            b == ExtractBaseName(cand[k])
            reg == norm_calls[k].reg
        IN  /\ b \in DOMAIN reg
            /\ norm_calls[k].ret = reg[b]
            /\ reg[b] = C4_EarliestBest(cand, {i \in 1..k : ExtractBaseName(cand[i]) = b})

\* C4 amended: normalize returns the empty string unchanged and registers nothing
\* for it; every other argument is trimmed first, and with the trimmed arguments as
\* candidates the entry of each base name is, after every call, the earliest
\* candidate of maximal score (100 for a CJK character, 50 for a "(" or a
\* full-width "(", min(length, 80)); a candidate of equal score never replaces the
\* entry, and the call returns the entry as it stands after the call.
C4_EntryIsEarliestMaxOfTrimmed ==
    \A k \in 1..Len(norm_calls) :
        LET cand == [i \in 1..Len(norm_calls) |-> Strip(norm_calls[i].arg)]
            seen == {i \in 1..k : norm_calls[i].arg # <<>>}
            reg == norm_calls[k].reg
        IN  /\ DOMAIN reg = {ExtractBaseName(cand[i]) : i \in seen}
            /\ \A i \in seen :
                   reg[ExtractBaseName(cand[i])] =
                       C4_EarliestBest(cand,
                           {j \in seen : ExtractBaseName(cand[j]) = ExtractBaseName(cand[i])})
            /\ IF norm_calls[k].arg = <<>>
               THEN norm_calls[k].ret = <<>>
               ELSE norm_calls[k].ret = reg[ExtractBaseName(cand[k])]

\* two candidates of equal score for one base name, and a third call
C4_Witness ==
    /\ Len(norm_calls) = 3
    /\ norm_calls[1].arg = OLAF_a
    /\ norm_calls[2].arg = OLAF_b /\ norm_calls[2].ret = OLAF_a
    /\ norm_calls[3].arg = OLAF_pad /\ norm_calls[3].ret = OLAF_a

----------------------------------------------------------------------------
(* Claims about save and load, checked under SpecPersist *)

LastOps(n) ==
    IF Len(last.ops) < n THEN <<>>
    ELSE SubSeq(last.ops, Len(last.ops) - n + 1, Len(last.ops))

\* C8: when load() returns False (file missing, not JSON, or a record without an
\* expected key), the graph, the document-entity map, the counters and the
\* registry are what they were before the call.
C8_FailedLoadLeavesBuilder ==
    (LastOps(1) = <<"load">> /\ ~last.ok) => Builder = last.pre

\* C9: save() followed by load() of the file returns True and yields the node
\* count, the edge count and the statistics() of the builder before the save.
C9_SaveLoadRoundTrip ==
    LastOps(2) = <<"save", "load">> =>
        /\ last.ok
        /\ Len(graph.nodes.keys) = Len(last.pre.graph.nodes.keys)
        /\ Len(graph.edges) = Len(last.pre.graph.edges)
        /\ Statistics(Builder) = Statistics(last.pre)

\* a round trip of a graph of two documents, an entity under two categories and
\* an edge from a node to itself
C9_Witness ==
    /\ LastOps(2) = <<"save", "load">>
    /\ Len(calls) = 2
    /\ Len(graph.nodes.keys) >= 4
    /\ \E i \in 1..Len(graph.edges) : graph.edges[i].u = graph.edges[i].v
    /\ Statistics(Builder).document_count = 2

\* the load read the file save() wrote from the builder as it stood, less its
\* "entity_canonical_forms"
OlderFormatLoaded == LastOps(3) = <<"save", "older_format", "load">>

\* C10 as the spec states it: for any sequence of add_document calls, the registry
\* load() rebuilds from the persisted document-entity map alone equals the registry
\* of the live run.
C10_RebuiltRegistryEqualsLive ==
    OlderFormatLoaded =>
        /\ last.ok
        /\ entity_canonical_forms = last.pre.entity_canonical_forms

\* no two add_document calls made so far gave the same document identity
DistinctDocuments ==
    \A i, j \in 1..Len(calls) :
        CleanDocName(calls[i].doc_name) = CleanDocName(calls[j].doc_name) => i = j

\* C10 amended: for any sequence of add_document calls in which no document
\* identity is added twice, the registry load() rebuilds from the persisted
\* document-entity map alone equals, key for key and form for form, the registry
\* of the live run.
C10_RebuiltEqualsLiveIfDistinct ==
    (OlderFormatLoaded /\ DistinctDocuments) =>
        /\ last.ok
        /\ entity_canonical_forms = last.pre.entity_canonical_forms

\* the bare form stored for one document, the annotated form for a later one
C10_Witness ==
    /\ OlderFormatLoaded
    /\ DistinctDocuments
    /\ Len(calls) = 2
    /\ calls[1].entities.val["keywords"] = <<OLAF>>
    /\ calls[2].entities.val["keywords"] = <<OLAF_zh>>
    /\ entity_canonical_forms = (Lower(OLAF) :> OLAF_zh)

----------------------------------------------------------------------------
(* clear(), and the runs that clear the builder between adds, saves and loads *)

\* a clear() that leaves the canonical-form registry as it was
ClearKeepsRegistry(b) ==
    [b EXCEPT !.graph = EmptyGraph,
              !.document_entities = EmptyDict,
              !.entity_counts = EmptyCounts]

\* KnowledgeGraph.clear
ClearOp(b) ==
    [b EXCEPT !.graph = EmptyGraph,
              !.document_entities = EmptyDict,
              !.entity_canonical_forms = EmptyFn,
              !.entity_counts = EmptyCounts]

\* a call of clear(); last.pre is the builder it was called on
Clear ==
    /\ PersistOps < MaxPersistOps
    /\ SetBuilder(ClearOp(Builder))
    /\ last' = [ops |-> Append(last.ops, "clear"), ok |-> last.ok, pre |-> Builder]
    /\ UNCHANGED <<calls, norm_calls, file, dp_vars, io_vars>>

NextClear ==
    \/ AddDocumentP
    \/ Save
    \/ Load
    \/ Clear

SpecClear == Init /\ [][NextClear]_vars

\* the last n operations, oldest first
EndsWith(ops) ==
    /\ Len(last.ops) >= Len(ops)
    /\ SubSeq(last.ops, Len(last.ops) - Len(ops) + 1, Len(last.ops)) = ops

\* C11: right after clear(), whatever the builder held, the graph has no nodes and
\* no edges, the document-to-entities map and the canonical-form registry are
\* empty and each of the five counters is empty; an add_document that follows
\* leaves the builder as the same call leaves a newly constructed one.
C11_ClearResetsBuilder ==
    /\ EndsWith(<<"clear">>) =>
          /\ graph.nodes.keys = <<>> /\ DOMAIN graph.nodes.val = {}
          /\ graph.edges = <<>>
          /\ document_entities.keys = <<>>
          /\ DOMAIN entity_canonical_forms = {}
          /\ DOMAIN entity_counts = Categories
          /\ \A c \in Categories : entity_counts[c].keys = <<>>
    /\ EndsWith(<<"clear", "add">>) =>
          Builder = AddDocumentOp(NewBuilder, calls[Len(calls)].doc_name,
                                  calls[Len(calls)].entities)

\* a document with entities is added, the builder is cleared, a document is added
C11_Witness ==
    /\ EndsWith(<<"add", "clear", "add">>)
    /\ calls[1].entities.val["keywords"] = <<OLAF_zh>>
    /\ calls[2].entities.val["keywords"] = <<OLAF>>
    /\ entity_canonical_forms = (Lower(OLAF) :> OLAF)
    /\ DOMAIN graph.nodes.val = {<<"p">>, OLAF}

----------------------------------------------------------------------------
(* Model of core/document_processor.py.                                    *)
(*                                                                         *)
(* Regular expressions of the re module.  A pattern is a record; Ends      *)
(* gives the offsets at which a match that starts at offset i can end, in  *)
(* the order re's backtracking search tries them, so that the first is the *)
(* end of the match re reports.  Offsets count the characters before the   *)
(* position: offset i is followed by s[i + 1].                             *)

Digits == {"0", "1", "2", "3", "4", "5", "6", "7", "8", "9"}

HexDigits == Digits \cup {"a", "b", "c", "d", "e", "f", "A", "B", "C", "D", "E", "F"}

\* the characters \w matches
WordChars == UpperChars \cup LowerChars \cup Digits \cup {"_"} \cup CJKChars

\* the characters \s matches
SpaceChars == {" ", "\n", "\t", "\r"}

IsWordChar(c) == c \in WordChars

\* [...] and [^...]
In(cs) == [k |-> "in", cs |-> cs]
NotIn(cs) == [k |-> "notin", cs |-> cs]
Lit(c) == In({c})
Cat(items) == [k |-> "cat", items |-> items]
Alt(items) == [k |-> "alt", items |-> items]
\* r{min,}, greedy
Many(r, min) == [k |-> "many", r |-> r, min |-> min]
Star(r) == Many(r, 0)
Plus(r) == Many(r, 1)
Opt(r) == [k |-> "opt", r |-> r]
\* r{n}
Times(r, n) == Cat([i \in 1..n |-> r])
\* \b, ^ and $
WordB == [k |-> "wb"]
Bol == [k |-> "bol"]
Eol == [k |-> "eol"]
\* the characters of w, one after the other
Word(w) == Cat([i \in 1..Len(w) |-> Lit(w[i])])

\* the one-character pattern r takes the character c
Takes(r, c) == IF r.k = "in" THEN c \in r.cs ELSE c \notin r.cs

\* \b at offset i
AtWordBoundary(s, i) ==
    LET before == i >= 1 /\ IsWordChar(s[i])
        after == i < Len(s) /\ IsWordChar(s[i + 1])
    IN  before # after

\* the least element of a set of integers that is not empty
SetMin(S) == CHOOSE j \in S : \A q \in S : j <= q

\* the number of characters from offset i on that the one-character pattern r takes
RunLen(r, s, i) ==
    CHOOSE n \in 0..(Len(s) - i) :
        /\ \A j \in 1..n : Takes(r, s[i + j])
        /\ (i + n < Len(s) => ~Takes(r, s[i + n + 1]))

RECURSIVE Ends(_, _, _), EndsCat(_, _, _, _), EndsAlt(_, _, _, _),
          EndsMany(_, _, _, _), EndsFrom(_, _, _, _, _, _)

Ends(r, s, i) ==
    CASE r.k \in {"in", "notin"} ->
            IF i < Len(s) /\ Takes(r, s[i + 1]) THEN <<i + 1>> ELSE <<>>
      [] r.k = "cat" -> EndsCat(r.items, 1, s, i)
      [] r.k = "alt" -> EndsAlt(r.items, 1, s, i)
      [] r.k = "many" -> EndsMany(r.r, r.min, s, i)
      [] r.k = "opt" -> Ends(r.r, s, i) \o <<i>>
      [] r.k = "wb"  -> IF AtWordBoundary(s, i) THEN <<i>> ELSE <<>>
      [] r.k = "bol" -> IF i = 0 THEN <<i>> ELSE <<>>
      [] r.k = "eol" -> IF i = Len(s) \/ (i = Len(s) - 1 /\ s[Len(s)] = "\n")
                        THEN <<i>> ELSE <<>>

\* the ends of items[k..] tried from each offset of from[lo..hi], in order
EndsFrom(from, lo, hi, items, k, s) ==
    IF lo > hi THEN <<>>
    ELSE IF lo = hi THEN EndsCat(items, k, s, from[lo])
    ELSE Bind((lo + hi) \div 2, LAMBDA mid :
            EndsFrom(from, lo, mid, items, k, s) \o EndsFrom(from, mid + 1, hi, items, k, s))

EndsCat(items, k, s, i) ==
    IF k > Len(items) THEN <<i>>
    ELSE Bind(Ends(items[k], s, i), LAMBDA from :
            EndsFrom(from, 1, Len(from), items, k + 1, s))

EndsAlt(items, k, s, i) ==
    IF k > Len(items) THEN <<>>
    ELSE Ends(items[k], s, i) \o EndsAlt(items, k + 1, s, i)

\* greedy: the longest run first.  A repeated group takes one more r and then the
\* rest, before stopping here.
EndsMany(r, min, s, i) ==
    IF r.k \in {"in", "notin"}
    THEN Bind(RunLen(r, s, i), LAMBDA n :
            IF n < min THEN <<>> ELSE [j \in 1..(n - min + 1) |-> i + n - j + 1])
    ELSE Bind(SelectSeq(Ends(r, s, i), LAMBDA e : e > i), LAMBDA once :
            EndsFrom(once, 1, Len(once), <<Many(r, IF min > 0 THEN min - 1 ELSE 0)>>, 1, s)
            \o (IF min = 0 THEN <<i>> ELSE <<>>))

\* the loop of re.finditer(r, s) over the offsets lo..hi: at.spans are the matches
\* found so far, at.pos is the offset the search goes on from.  A match that is
\* empty moves the search one character on.
RECURSIVE FindIn(_, _, _, _, _)
FindIn(r, s, lo, hi, at) ==
    IF lo > hi THEN at
    ELSE IF lo = hi
    THEN IF lo < at.pos THEN at
         ELSE Bind(Ends(r, s, lo), LAMBDA ends :
                 IF ends = <<>> THEN at
                 ELSE [spans |-> Append(at.spans, [from |-> lo, to |-> ends[1]]),
                       pos |-> IF ends[1] = lo THEN lo + 1 ELSE ends[1]])
    ELSE Bind((lo + hi) \div 2, LAMBDA mid :
            Bind(FindIn(r, s, lo, mid, at), LAMBDA half :
                FindIn(r, s, mid + 1, hi, half)))

\* re.finditer(r, s) from offset i on: the spans [from, to] of the matches,
\* offsets as above
FindSpans(r, s, i) ==
    Bind(s, LAMBDA text :
        FindIn(r, text, i, Len(text), [spans |-> <<>>, pos |-> i]).spans)

\* len(re.findall(r, s))
FindCount(r, s) ==
    Bind(s, LAMBDA text :
        IF r.k \in {"in", "notin"}
        THEN Cardinality({i \in 1..Len(text) : Takes(r, text[i])})
        ELSE Len(FindSpans(r, text, 0)))

\* re.search(r, s) is not None
Search(r, s) == Bind(s, LAMBDA text : \E i \in 0..Len(text) : Ends(r, text, i) # <<>>)

\* re.match(r, s) is not None
Match(r, s) == Bind(s, LAMBDA text : Ends(r, text, 0) # <<>>)

\* "".join(list), the items lo..hi of the list
RECURSIVE JoinIn(_, _, _)
JoinIn(list, lo, hi) ==
    IF lo > hi THEN <<>>
    ELSE IF lo = hi THEN list[lo]
    ELSE Bind((lo + hi) \div 2, LAMBDA mid :
            JoinIn(list, lo, mid) \o JoinIn(list, mid + 1, hi))

\* "".join(list)
Join(list) == Bind(list, LAMBDA l : JoinIn(l, 1, Len(l)))

\* re.sub(r, repl, s), the matches looked for in t: t is s, or Lower(s) for a
\* pattern that ignores case.  What is between two matches is kept, every match
\* gives way to repl.
SubFrom(r, repl, s, t) ==
    Bind(FindSpans(r, t, 0), LAMBDA spans :
        LET n == Len(spans)
            stop(k) == IF k = 0 THEN 0 ELSE spans[k].to
        IN  Join([k \in 1..n |-> SubSeq(s, stop(k - 1) + 1, spans[k].from) \o repl])
            \o SubSeq(s, stop(n) + 1, Len(s)))

Sub(r, repl, s) == Bind(s, LAMBDA text : SubFrom(r, repl, text, text))

SubIgnoreCase(r, repl, s) ==
    Bind(s, LAMBDA text : Bind(Lower(text), LAMBDA lower : SubFrom(r, repl, text, lower)))

----------------------------------------------------------------------------
(* is_garbage_chunk: the patterns, in the order the code uses them.  The     *)
(* comment over a pattern is its regular expression in the source.          *)

\* [a-zA-Z一-鿿0-9\.,;:!?\'"()\[\]\-\s]
MeaningfulChar ==
    In(LowerChars \cup UpperChars \cup CJKChars \cup Digits \cup SpaceChars \cup {".", ",",
        ";", ":", "!", "?", "'", "\"", "(", ")", "[", "]", "-"})

\* \b[A-Z][a-z]+\b
CapitalizedWord ==
    Cat(<<WordB, In(UpperChars), Plus(In(LowerChars)), WordB>>)

\* \b[A-Z]\.\s*[A-Z][a-z]+
AuthorInitials ==
    Cat(<<WordB, In(UpperChars), Lit("."), Star(In(SpaceChars)), In(UpperChars),
        Plus(In(LowerChars))>>)

\* [A-Z][a-z]+,\s*[A-Z]\.
AuthorInitials2 ==
    Cat(<<In(UpperChars), Plus(In(LowerChars)), Lit(","), Star(In(SpaceChars)),
        In(UpperChars), Lit(".")>>)

\* \d+\(\d+\):
VolumePattern ==
    Cat(<<Plus(In(Digits)), Lit("("), Plus(In(Digits)), Word(<<")", ":">>)>>)

\* (?:pp?\.|pages?)\s*\d+[-–]\d+
PagePattern ==
    Cat(<<Alt(<<Cat(<<Lit("p"), Opt(Lit("p")), Lit(".")>>), Cat(<<Word(<<"p", "a", "g",
        "e">>), Opt(Lit("s"))>>)>>), Star(In(SpaceChars)), Plus(In(Digits)), In({"-",
        "U2013"}), Plus(In(Digits))>>)

\* [,\.]\s*(19|20)\d{2}[,\.\)]
YearWithPunct ==
    Cat(<<In({",", "."}), Star(In(SpaceChars)), Alt(<<Word(<<"1", "9">>), Word(<<"2",
        "0">>)>>), Times(In(Digits), 2), In({",", ".", ")"})>>)

\* journal_keywords
JournalKeywords ==
    << Cat(<<Word(<<"t", "r", "a", "n", "s", "a", "c", "t", "i", "o", "n", "s">>), Plus(In(SpaceChars)), Word(<<"o", "n">>)>>),
       Cat(<<Word(<<"j", "o", "u", "r", "n", "a", "l">>), Plus(In(SpaceChars)), Word(<<"o", "f">>)>>),
       Cat(<<Word(<<"p", "r", "o", "c", "e", "e", "d", "i", "n", "g", "s">>), Plus(In(SpaceChars)), Word(<<"o", "f">>)>>),
       Cat(<<Word(<<"c", "o", "n", "f", "e", "r", "e", "n", "c", "e">>), Plus(In(SpaceChars)), Word(<<"o", "n">>)>>),
       Cat(<<Word(<<"s", "y", "m", "p", "o", "s", "i", "u", "m">>), Plus(In(SpaceChars)), Word(<<"o", "n">>)>>),
       Cat(<<Word(<<"w", "o", "r", "k", "s", "h", "o", "p">>), Plus(In(SpaceChars)), Word(<<"o", "n">>)>>),
       Cat(<<Word(<<"i", "n">>), Plus(In(SpaceChars)), Word(<<"p", "r", "o", "c", ".">>)>>),
       Cat(<<Word(<<"a", "r", "x", "i", "v">>), Star(In(SpaceChars)), Lit(":")>>),
       Cat(<<WordB, Word(<<"i", "n">>), Plus(In(SpaceChars)), Word(<<"t", "h", "e">>), Plus(In(SpaceChars)), Plus(In(Digits))>>) >>

\* [A-Z][a-z]+,\s*[A-Z]\.,?\s*(?:and\s+)?[A-Z][a-z]+
CommaNames ==
    Cat(<<In(UpperChars), Plus(In(LowerChars)), Lit(","), Star(In(SpaceChars)),
        In(UpperChars), Lit("."), Opt(Lit(",")), Star(In(SpaceChars)),
        Opt(Cat(<<Word(<<"a", "n", "d">>), Plus(In(SpaceChars))>>)), In(UpperChars),
        Plus(In(LowerChars))>>)

\* [A-Z][a-z]+\d+[,\d]*\s
AuthorSuperscripts ==
    Cat(<<In(UpperChars), Plus(In(LowerChars)), Plus(In(Digits)),
        Star(In(Digits \cup {","})), In(SpaceChars)>>)

\* \d+[A-Z][a-z]+\s+(University|Institute|Lab|Google|Microsoft|Meta|Research)
InstitutionPattern ==
    Cat(<<Plus(In(Digits)), In(UpperChars), Plus(In(LowerChars)), Plus(In(SpaceChars)),
        Alt(<<Word(<<"U", "n", "i", "v", "e", "r", "s", "i", "t", "y">>), Word(<<"I", "n",
        "s", "t", "i", "t", "u", "t", "e">>), Word(<<"L", "a", "b">>), Word(<<"G", "o",
        "o", "g", "l", "e">>), Word(<<"M", "i", "c", "r", "o", "s", "o", "f", "t">>),
        Word(<<"M", "e", "t", "a">>), Word(<<"R", "e", "s", "e", "a", "r", "c", "h">>)>>)>>)

\* \babstract\s+(we|how|this|in)\s+
AbstractPattern ==
    Cat(<<WordB, Word(<<"a", "b", "s", "t", "r", "a", "c", "t">>), Plus(In(SpaceChars)),
        Alt(<<Word(<<"w", "e">>), Word(<<"h", "o", "w">>), Word(<<"t", "h", "i", "s">>),
        Word(<<"i", "n">>)>>), Plus(In(SpaceChars))>>)

\* ^[A-Z][^\.]+:\s*[A-Z][^\.]+\s+[A-Z][a-z]+\d
PaperTitlePattern ==
    Cat(<<Bol, In(UpperChars), Plus(NotIn({"."})), Lit(":"), Star(In(SpaceChars)),
        In(UpperChars), Plus(NotIn({"."})), Plus(In(SpaceChars)), In(UpperChars),
        Plus(In(LowerChars)), In(Digits)>>)

\* [\w\.-]+@[\w\.-]+\.\w+
EmailPattern ==
    Cat(<<Plus(In(WordChars \cup {".", "-"})), Lit("@"), Plus(In(WordChars \cup {".",
        "-"})), Lit("."), Plus(In(WordChars))>>)

\* (figure|fig\.?|table)\s*\d+\s*[:\.]?
FigTablePattern ==
    Cat(<<Alt(<<Word(<<"f", "i", "g", "u", "r", "e">>), Cat(<<Word(<<"f", "i", "g">>),
        Opt(Lit("."))>>), Word(<<"t", "a", "b", "l", "e">>)>>), Star(In(SpaceChars)),
        Plus(In(Digits)), Star(In(SpaceChars)), Opt(In({":", "."}))>>)

\* \([a-d]\)
SubfigLabel ==
    Cat(<<Lit("("), In({"a", "b", "c", "d"}), Lit(")")>>)

\* \d+\.\d+\s+\d+\.\d+\s+\d+\.\d+
ConsecutiveDecimals ==
    Cat(<<Plus(In(Digits)), Lit("."), Plus(In(Digits)), Plus(In(SpaceChars)),
        Plus(In(Digits)), Lit("."), Plus(In(Digits)), Plus(In(SpaceChars)),
        Plus(In(Digits)), Lit("."), Plus(In(Digits))>>)

\* \d+\.\d+\s+\d+\.\d+
SpaceSeparatedNums ==
    Cat(<<Plus(In(Digits)), Lit("."), Plus(In(Digits)), Plus(In(SpaceChars)),
        Plus(In(Digits)), Lit("."), Plus(In(Digits))>>)

\* ±\s*\d+\.?\d*
ErrorMargin ==
    Cat(<<Lit("U00B1"), Star(In(SpaceChars)), Plus(In(Digits)), Opt(Lit(".")),
        Star(In(Digits))>>)

\* ack_keywords
AckKeywords ==
    << Cat(<<Word(<<"g", "r", "a", "n", "t">>), Star(In(SpaceChars)), Word(<<"n", "o">>), Opt(Lit("."))>>),
       Cat(<<Word(<<"n", "a", "t", "i", "o", "n", "a", "l">>), Plus(In(SpaceChars)), Word(<<"s", "c", "i", "e", "n", "c", "e">>), Plus(In(SpaceChars)), Word(<<"f", "o", "u", "n", "d", "a", "t", "i", "o", "n">>)>>),
       Cat(<<Word(<<"s", "u", "p", "p", "o", "r", "t", "e", "d">>), Plus(In(SpaceChars)), Word(<<"b", "y">>)>>),
       Cat(<<Word(<<"f", "u", "n", "d", "e", "d">>), Plus(In(SpaceChars)), Word(<<"b", "y">>)>>),
       Cat(<<Word(<<"t", "h", "i", "s">>), Plus(In(SpaceChars)), Word(<<"w", "o", "r", "k">>), Plus(In(SpaceChars)), Word(<<"w", "a", "s">>), Plus(In(SpaceChars)), Word(<<"s", "u", "p", "p", "o", "r", "t", "e", "d">>)>>),
       Word(<<"a", "c", "k", "n", "o", "w", "l", "e", "d", "g", "m", "e", "n", "t">>),
       Word(<<"a", "c", "k", "n", "o", "w", "l", "e", "d", "g", "e", "m", "e", "n", "t">>),
       Cat(<<Word(<<"w", "e">>), Plus(In(SpaceChars)), Word(<<"t", "h", "a", "n", "k">>)>>),
       Cat(<<Word(<<"f", "a", "c", "u", "l", "t", "y">>), Plus(In(SpaceChars)), Word(<<"a", "w", "a", "r", "d">>)>>),
       Cat(<<Word(<<"r", "e", "s", "e", "a", "r", "c", "h">>), Plus(In(SpaceChars)), Word(<<"a", "w", "a", "r", "d">>)>>),
       Cat(<<Word(<<"n", "s", "f">>), Plus(In(SpaceChars))>>),
       Cat(<<Word(<<"o", "n", "r">>), Plus(In(SpaceChars))>>),
       Cat(<<Word(<<"d", "a", "r", "p", "a">>), Plus(In(SpaceChars))>>) >>

\* [A-Z]{2,}\s*[-\s]?\d{4,}[-\d]*
GrantNumber ==
    Cat(<<Many(In(UpperChars), 2), Star(In(SpaceChars)), Opt(In(SpaceChars \cup {"-"})),
        Many(In(Digits), 4), Star(In(Digits \cup {"-"}))>>)

\* urdf_patterns
UrdfPatterns ==
    << Word(<<"j", "o", "i", "n", "t", "_", "n", "a", "m", "e", ":">>),
       Word(<<"j", "o", "i", "n", "t", "_", "t", "y", "p", "e", ":">>),
       Word(<<"p", "a", "r", "e", "n", "t", "_", "l", "i", "n", "k", ":">>),
       Word(<<"c", "h", "i", "l", "d", "_", "l", "i", "n", "k", ":">>),
       Cat(<<Word(<<"l", "i", "n", "k", "_">>), Plus(In(Digits))>>),
       Cat(<<Word(<<"j", "o", "i", "n", "t", "_">>), Plus(In(Digits))>>),
       Word(<<"<", "l", "i", "n", "k", ">">>),
       Word(<<"<", "j", "o", "i", "n", "t", ">">>),
       Word(<<"<", "r", "o", "b", "o", "t", ">">>) >>

\* (\b\w+_\d+\b)
RepeatedPattern ==
    Cat(<<WordB, Plus(In(WordChars)), Lit("_"), Plus(In(Digits)), WordB>>)

----------------------------------------------------------------------------
(* is_garbage_chunk: the checks.  The function returns a bool and prints, *)
(* before it returns True, the message of the check that fired; the rule  *)
(* below names that message.                                              *)

\* text.count(c)
CountChar(text, c) == Bind(text, LAMBDA t : Cardinality({i \in 1..Len(t) : t[i] = c}))

\* text.split(sep) for a separator of one character
SplitOn(text, sep) ==
    Bind({i \in 1..Len(text) : text[i] = sep}, LAMBDA at :
        LET n == Cardinality(at)
            \* the k-th separator; 0 before the first, Len(text) + 1 after the last
            pos(k) == IF k = 0 THEN 0
                      ELSE IF k = n + 1 THEN Len(text) + 1
                      ELSE CHOOSE p \in at : Cardinality({q \in at : q <= p}) = k
        IN  [k \in 1..(n + 1) |-> SubSeq(text, pos(k - 1) + 1, pos(k) - 1)])

\* sum(len(d) for d in list), the items lo..hi of the list
RECURSIVE SumLenIn(_, _, _)
SumLenIn(list, lo, hi) ==
    IF lo > hi THEN 0
    ELSE IF lo = hi THEN Len(list[lo])
    ELSE Bind((lo + hi) \div 2, LAMBDA mid :
            SumLenIn(list, lo, mid) + SumLenIn(list, mid + 1, hi))

SumLen(list) == Bind(list, LAMBDA l : SumLenIn(l, 1, Len(l)))

\* len(text.split())
WordCount(text) == FindCount(Plus(NotIn(SpaceChars)), text)

\* sum(1 for p in patterns if re.search(p, text))
SearchCount(patterns, text) ==
    Cardinality({i \in 1..Len(patterns) : Search(patterns[i], text)})

\* a check 0 that also rejects a text of 100 characters
TooShortAt100(text) == Len(text) <= 100

\* check 0: len(text) < 100
TooShort(text) == Len(text) < 100

\* check 1: meaningful_ratio < 0.7
LowMeaningfulRatio(text) ==
    \/ text = <<>>
    \/ 10 * FindCount(MeaningfulChar, text) < 7 * Len(text)

\* check 1.5: the author list
AuthorList(text) ==
    LET comma_count == CountChar(text, ",")
        capitalized_words == FindCount(CapitalizedWord, text)
        words == WordCount(text)
    IN  /\ comma_count >= 15
        /\ Bind(SplitOn(text, ","), LAMBDA split :
             Bind(SelectSeq([i \in 1..Len(split) |-> Strip(split[i])],
                            LAMBDA seg : seg # <<>>), LAMBDA segments :
                /\ segments # <<>>
                /\ SumLen(segments) < 25 * Len(segments)))
        /\ Bind(words, LAMBDA n : n > 0 /\ 10 * capitalized_words > 6 * n)

\* check 2: ref_indicators
RefIndicators(text) ==
    Bind(Lower(text), LAMBDA text_lower :
        (IF FindCount(AuthorInitials, text) + FindCount(AuthorInitials2, text) >= 3
         THEN 2 ELSE 0)
      + (IF FindCount(VolumePattern, text) >= 1 \/ FindCount(PagePattern, text_lower) >= 2
         THEN 2 ELSE 0)
      + (IF FindCount(YearWithPunct, text) >= 3 THEN 1 ELSE 0)
      + (IF SearchCount(JournalKeywords, text_lower) >= 1 THEN 1 ELSE 0)
      + (IF FindCount(CommaNames, text) >= 2 THEN 1 ELSE 0))

ReferenceList(text) == RefIndicators(text) >= 3

\* check 3: title_page_indicators
TitlePageIndicators(text) ==
      (IF FindCount(AuthorSuperscripts, text) >= 2 THEN 2 ELSE 0)
    + (IF FindCount(InstitutionPattern, text) >= 1 THEN 2 ELSE 0)
    + (IF Search(AbstractPattern, Lower(text)) THEN 1 ELSE 0)
    + (IF Search(PaperTitlePattern, text) THEN 2 ELSE 0)
    + (IF FindCount(EmailPattern, text) >= 1 THEN 1 ELSE 0)

TitlePage(text) == TitlePageIndicators(text) >= 2

\* check 4: figure_table_indicators
FigureTableIndicators(text) ==
    Bind(FindCount(FigTablePattern, Lower(text)), LAMBDA fig_table_matches :
        (IF fig_table_matches >= 1 THEN 1 ELSE 0)
      + (IF fig_table_matches >= 2 THEN 1 ELSE 0)
      + (IF FindCount(SubfigLabel, Lower(text)) >= 3 THEN 1 ELSE 0)
      + (IF FindCount(ConsecutiveDecimals, text) >= 1 THEN 2 ELSE 0)
      + (IF FindCount(SpaceSeparatedNums, text) >= 3 THEN 1 ELSE 0)
      + (IF CountChar(text, "U00B1") > 0 /\ Search(ErrorMargin, text) THEN 1 ELSE 0))

FigureTable(text) == FigureTableIndicators(text) >= 2

\* check 5: ack_indicators
AckIndicators(text) ==
      SearchCount(AckKeywords, Lower(text))
    + (IF FindCount(GrantNumber, text) >= 1 THEN 2 ELSE 0)

Acknowledgment(text) == AckIndicators(text) >= 2

\* check 6: urdf_matches >= 3
ConfigFile(text) == SearchCount(UrdfPatterns, Lower(text)) >= 3

\* check 7: colon_density > 3 and colon_count > 10
ColonDensity(text) ==
    Bind(CountChar(text, ":"), LAMBDA colon_count :
        /\ text # <<>>
        /\ colon_count * 100 > 3 * Len(text)
        /\ colon_count > 10)

\* the strings RepeatedPattern matches, one per match
Matched(r, text) ==
    Bind(FindSpans(r, text, 0), LAMBDA spans :
        [i \in 1..Len(spans) |-> SubSeq(text, spans[i].from + 1, spans[i].to)])

\* check 8: more than 10 matches, unique_ratio < 0.3
RepeatedPatternCheck(text) ==
    Bind(Matched(RepeatedPattern, text), LAMBDA repeated_pattern :
        LET distinct == {repeated_pattern[i] : i \in 1..Len(repeated_pattern)}
        IN  /\ Len(repeated_pattern) > 10
            /\ 10 * Cardinality(distinct) < 3 * Len(repeated_pattern))

\* DocumentProcessor.is_garbage_chunk
IsGarbageChunk(chunk_text) ==
    Bind(chunk_text, LAMBDA text :
    IF TooShort(text) THEN [garbage |-> TRUE, rule |-> "too_short"]
    ELSE IF LowMeaningfulRatio(text) THEN [garbage |-> TRUE, rule |-> "meaningful_ratio"]
    ELSE IF AuthorList(text) THEN [garbage |-> TRUE, rule |-> "author_list"]
    ELSE IF ReferenceList(text) THEN [garbage |-> TRUE, rule |-> "reference_list"]
    ELSE IF TitlePage(text) THEN [garbage |-> TRUE, rule |-> "title_page"]
    ELSE IF FigureTable(text) THEN [garbage |-> TRUE, rule |-> "figure_table"]
    ELSE IF Acknowledgment(text) THEN [garbage |-> TRUE, rule |-> "acknowledgment"]
    ELSE IF ConfigFile(text) THEN [garbage |-> TRUE, rule |-> "config_file"]
    ELSE IF ColonDensity(text) THEN [garbage |-> TRUE, rule |-> "colon_density"]
    ELSE IF RepeatedPatternCheck(text) THEN [garbage |-> TRUE, rule |-> "repeated_pattern"]
    ELSE [garbage |-> FALSE, rule |-> "none"])

----------------------------------------------------------------------------
(* is_reference_chunk: the patterns.  A pattern the code matches with       *)
(* re.IGNORECASE is written in lower case and matched against Lower(text).  *)

\* \[\d+(?:,\s*\d+)*\]
CitationPattern ==
    Cat(<<Lit("["), Plus(In(Digits)), Star(Cat(<<Lit(","), Star(In(SpaceChars)),
        Plus(In(Digits))>>)), Lit("]")>>)

\* \[(\d+)\]
SequentialCitation ==
    Cat(<<Lit("["), Plus(In(Digits)), Lit("]")>>)

\* (?:[A-Z][a-z]+\s+(?:et\s+al\.?|and\s+[A-Z][a-z]+)?\s*[\(\,]\s*(?:19|20)\d{2}\s*[\)\,])
AuthorYearPattern ==
    Cat(<<In(UpperChars), Plus(In(LowerChars)), Plus(In(SpaceChars)),
        Opt(Alt(<<Cat(<<Word(<<"e", "t">>), Plus(In(SpaceChars)), Word(<<"a", "l">>),
        Opt(Lit("."))>>), Cat(<<Word(<<"a", "n", "d">>), Plus(In(SpaceChars)),
        In(UpperChars), Plus(In(LowerChars))>>)>>)), Star(In(SpaceChars)), In({"(", ","}),
        Star(In(SpaceChars)), Alt(<<Word(<<"1", "9">>), Word(<<"2", "0">>)>>),
        Times(In(Digits), 2), Star(In(SpaceChars)), In({")", ","})>>)

\* arXiv, re.IGNORECASE
ArxivPattern ==
    Word(<<"a", "r", "x", "i", "v">>)

\* \b(19|20)\d{2}\b
YearPattern ==
    Cat(<<WordB, Alt(<<Word(<<"1", "9">>), Word(<<"2", "0">>)>>), Times(In(Digits), 2),
        WordB>>)

\* kw.lower() for kw in venue_keywords
VenueKeywords ==
    << Word(<<"i", "e", "e", "e">>),
       Word(<<"a", "c", "m">>),
       Word(<<"c", "v", "p", "r">>),
       Word(<<"i", "c", "c", "v">>),
       Word(<<"e", "c", "c", "v">>),
       Word(<<"n", "e", "u", "r", "i", "p", "s">>),
       Word(<<"i", "c", "m", "l">>),
       Word(<<"i", "c", "l", "r">>),
       Word(<<"a", "a", "a", "i">>),
       Word(<<"i", "j", "c", "a", "i">>),
       Word(<<"p", "r", "e", "p", "r", "i", "n", "t">>),
       Word(<<"p", "r", "o", "c", "e", "e", "d", "i", "n", "g", "s">>),
       Word(<<"c", "o", "n", "f", "e", "r", "e", "n", "c", "e">>),
       Word(<<"j", "o", "u", "r", "n", "a", "l">>),
       Word(<<"t", "r", "a", "n", "s", "a", "c", "t", "i", "o", "n", "s">>),
       Word(<<"v", "o", "l", ".">>),
       Word(<<"p", "p", ".">>),
       Word(<<"e", "d", "s", ".">>),
       Word(<<"e", "t", " ", "a", "l", ".">>),
       Word(<<"i", "n", " ", "p", "r", "o", "c", "e", "e", "d", "i", "n", "g", "s">>),
       Word(<<"w", "o", "r", "k", "s", "h", "o", "p">>),
       Word(<<"s", "y", "m", "p", "o", "s", "i", "u", "m">>),
       Word(<<"a", "n", "n", "u", "a", "l", " ", "m", "e", "e", "t", "i", "n", "g">>),
       Word(<<"a", "r", "x", "i", "v">>),
       Word(<<"a", "b", "s", "/">>) >>

\* (?:pp\.|pages?)\s*\d+[\-–]\d+, re.IGNORECASE
RefPagePattern ==
    Cat(<<Alt(<<Word(<<"p", "p", ".">>), Cat(<<Word(<<"p", "a", "g", "e">>),
        Opt(Lit("s"))>>)>>), Star(In(SpaceChars)), Plus(In(Digits)), In({"-", "U2013"}),
        Plus(In(Digits))>>)

\* doi[:\.\s], re.IGNORECASE
DoiPattern ==
    Cat(<<Word(<<"d", "o", "i">>), In(SpaceChars \cup {":", "."})>>)

\* https?://
UrlPattern ==
    Cat(<<Word(<<"h", "t", "t", "p">>), Opt(Lit("s")), Word(<<":", "/", "/">>)>>)
\* int(c) for a digit c
DigitValue(c) == CHOOSE d \in 0..9 : <<"0", "1", "2", "3", "4", "5", "6", "7", "8", "9">>[d + 1] = c

\* int(n) for a string of digits
RECURSIVE ToInt(_)
ToInt(n) == IF n = <<>> THEN 0 ELSE 10 * ToInt(SubSeq(n, 1, Len(n) - 1)) + DigitValue(n[Len(n)])

\* lines 491-499: three consecutive numbers among the first ten [n]
HasSequential(text) ==
    Bind(Matched(SequentialCitation, text), LAMBDA sequential_citations :
        /\ Len(sequential_citations) >= 3
        /\ Bind(SubSeq(sequential_citations, 1, Min(10, Len(sequential_citations))),
                LAMBDA first :
             Bind([i \in 1..Len(first) |-> ToInt(SubSeq(first[i], 2, Len(first[i]) - 1))],
                  LAMBDA nums :
                \E i \in 1..(Len(nums) - 2) :
                    nums[i + 1] = nums[i] + 1 /\ nums[i + 2] = nums[i] + 2)))

\* DocumentProcessor.is_reference_chunk; the density score in tenths
IsReferenceChunk(chunk_text) ==
    Bind(chunk_text, LAMBDA text :
    LET text_length == Len(text)
        citations == FindCount(CitationPattern, text)
        author_year_matches == FindCount(AuthorYearPattern, text)
        arxiv_refs == FindCount(ArxivPattern, Lower(text))
        years == FindCount(YearPattern, text)
        venue_count == SearchCount(VenueKeywords, Lower(text))
        page_patterns == FindCount(RefPagePattern, Lower(text))
        doi_count == FindCount(DoiPattern, Lower(text))
        url_count == FindCount(UrlPattern, text)
        density10 == citations * 20 + arxiv_refs * 30 + author_year_matches * 20
                     + years * 3 + venue_count * 15 + page_patterns * 20
                     + doi_count * 20 + url_count * 10
    IN  IF text_length < 50 THEN FALSE
        ELSE \/ HasSequential(text)
             \/ author_year_matches >= 2
             \/ citations >= 2
             \/ arxiv_refs >= 1
             \/ (years >= 3 /\ venue_count >= 1)
             \/ page_patterns >= 1
             \/ doi_count >= 1 \/ url_count >= 2
             \/ density10 * 100 > 15 * text_length)

----------------------------------------------------------------------------
(* clean_text.  "x00" is the NUL character, "x01" to "x1F" the other control  *)
(* characters, "UD800" an unpaired surrogate.                                 *)

\* the characters encode('utf-8', 'surrogatepass').decode('utf-8', 'ignore') drops
SurrogateChars == {"UD800", "UDFFF"}

\* [\x01-\x08\x0b\x0c\x0e-\x1f]
ControlChars ==
    {"x01", "x02", "x03", "x04", "x05", "x06", "x07", "x08", "x0B", "x0C",
     "x0E", "x0F", "x10", "x11", "x12", "x13", "x14", "x15", "x16", "x17",
     "x18", "x19", "x1A", "x1B", "x1C", "x1D", "x1E", "x1F"}

\* /uni[0-9a-fA-F]{8}
UniEscape8 ==
    Cat(<<Word(<<"/", "u", "n", "i">>), Times(In(HexDigits), 8)>>)

\* /uni[0-9a-fA-F]{4,}
UniEscape4 ==
    Cat(<<Word(<<"/", "u", "n", "i">>), Many(In(HexDigits), 4)>>)

\* \b\d{5,}\b(?:/uni[0-9a-fA-F]+)*
DigitRun ==
    Cat(<<WordB, Many(In(Digits), 5), WordB, Star(Cat(<<Word(<<"/", "u", "n", "i">>),
        Plus(In(HexDigits))>>))>>)

\* 第\s*\d+\s*页
PageNumberZh ==
    Cat(<<Lit("U7B2C"), Star(In(SpaceChars)), Plus(In(Digits)), Star(In(SpaceChars)),
        Lit("U9875")>>)

\* (?i)page\s*\d+\s*(of\s*\d+)?
PageNumberEn ==
    Cat(<<Word(<<"p", "a", "g", "e">>), Star(In(SpaceChars)), Plus(In(Digits)),
        Star(In(SpaceChars)), Opt(Cat(<<Word(<<"o", "f">>), Star(In(SpaceChars)),
        Plus(In(Digits))>>))>>)

\* \n{3,}
BlankLines ==
    Many(Lit("\n"), 3)

\*  {3,}
SpaceRun ==
    Many(Lit(" "), 3)

\* DocumentProcessor.clean_text
CleanText(text) ==
    LET t1 == SelectSeq(text, LAMBDA c : c \notin SurrogateChars)
        t2 == Sub(UniEscape8, <<>>, t1)
        t3 == Sub(UniEscape4, <<>>, t2)
        t4 == SelectSeq(t3, LAMBDA c : c # "x00")
        t5 == SelectSeq(t4, LAMBDA c : c \notin ControlChars)
        t6 == Sub(DigitRun, <<>>, t5)
        t7 == Sub(PageNumberZh, <<>>, t6)
        t8 == SubIgnoreCase(PageNumberEn, <<>>, t7)
        t9 == Sub(BlankLines, <<"\n", "\n">>, t8)
        t10 == Sub(SpaceRun, <<" ">>, t9)
    IN  Strip(t10)

----------------------------------------------------------------------------
(* remove_references_section.  A page is a Document: its page_content and   *)
(* the "source_file" and "page" of its metadata.                            *)

\* reference_patterns
ReferencePatterns ==
    << Cat(<<Bol, Word(<<"r", "e", "f", "e", "r", "e", "n", "c", "e", "s">>), Star(In(SpaceChars)), Eol>>),
       Cat(<<Bol, Word(<<"b", "i", "b", "l", "i", "o", "g", "r", "a", "p", "h", "y">>), Star(In(SpaceChars)), Eol>>),
       Cat(<<Bol, Word(<<"r", "e", "f", "e", "r", "e", "n", "c", "e">>), Star(In(SpaceChars)), Eol>>),
       Cat(<<Bol, Word(<<"U53C2", "U8003", "U6587", "U732E">>), Star(In(SpaceChars)), Eol>>),
       Cat(<<Bol, Word(<<"U5F15", "U7528", "U6587", "U732E">>), Star(In(SpaceChars)), Eol>>),
       Cat(<<Bol, Plus(In(Digits)), Opt(Lit(".")), Plus(In(SpaceChars)), Word(<<"r", "e", "f", "e", "r", "e", "n", "c", "e", "s">>), Star(In(SpaceChars)), Eol>>),
       Cat(<<Bol, Plus(In(Digits)), Opt(Lit(".")), Plus(In(SpaceChars)), Word(<<"b", "i", "b", "l", "i", "o", "g", "r", "a", "p", "h", "y">>), Star(In(SpaceChars)), Eol>>),
       Cat(<<Bol, Plus(In(Digits)), Opt(Lit(".")), Star(In(SpaceChars)), Word(<<"U53C2", "U8003", "U6587", "U732E">>), Star(In(SpaceChars)), Eol>>),
       Cat(<<Bol, Plus(In({"i", "v", "x", "I", "V", "X"})), Opt(Lit(".")), Plus(In(SpaceChars)), Word(<<"r", "e", "f", "e", "r", "e", "n", "c", "e", "s">>), Star(In(SpaceChars)), Eol>>),
       Cat(<<Bol, Plus(In({"i", "v", "x", "I", "V", "X"})), Opt(Lit(".")), Plus(In(SpaceChars)), Word(<<"b", "i", "b", "l", "i", "o", "g", "r", "a", "p", "h", "y">>), Star(In(SpaceChars)), Eol>>),
       Cat(<<Bol, Lit("["), Plus(In(Digits)), Lit("]"), Star(In(SpaceChars)), Word(<<"r", "e", "f", "e", "r", "e", "n", "c", "e", "s">>), Star(In(SpaceChars)), Eol>>) >>

\* lines 449-458: one of the first ten lines of the page is a reference heading
HasReferenceHeading(content) ==
    Bind(SplitOn(content, "\n"), LAMBDA lines :
        \E k \in 1..Min(10, Len(lines)) :
            Bind(Lower(Strip(lines[k])), LAMBDA clean_line :
                /\ clean_line # <<>>
                /\ \E j \in 1..Len(ReferencePatterns) :
                       Match(ReferencePatterns[j], clean_line)))

\* lines 444-469: the index, counted from 0, of the first page with a reference
\* heading, -1 if there is none; the scan starts at the page of index i
RECURSIVE CutoffIndex(_, _)
CutoffIndex(documents, i) ==
    IF i >= Len(documents) THEN -1
    ELSE IF HasReferenceHeading(documents[i + 1].page_content) THEN i
    ELSE CutoffIndex(documents, i + 1)

\* a truncation that keeps the page with the heading
RemoveAfterHeadingPage(documents) ==
    Bind(CutoffIndex(documents, 0), LAMBDA cutoff_index :
        IF cutoff_index # -1 THEN SubSeq(documents, 1, cutoff_index + 1) ELSE documents)

\* a truncation that drops the page with the heading and keeps the pages after it
RemoveHeadingPageOnly(documents) ==
    Bind(CutoffIndex(documents, 0), LAMBDA cutoff_index :
        IF cutoff_index # -1
        THEN SubSeq(documents, 1, cutoff_index)
             \o SubSeq(documents, cutoff_index + 2, Len(documents))
        ELSE documents)

\* DocumentProcessor.remove_references_section
RemoveReferencesSection(documents) ==
    Bind(CutoffIndex(documents, 0), LAMBDA cutoff_index :
        IF cutoff_index # -1 THEN SubSeq(documents, 1, cutoff_index) ELSE documents)

----------------------------------------------------------------------------
(* RecursiveCharacterTextSplitter of langchain, as the processor builds it: *)
(* keep_separator and strip_whitespace at their defaults (True), len as     *)
(* the length function.  A processor is [chunk_size, chunk_overlap].        *)

\* the separators of __init__, lines 45-58
Separators ==
    << <<"\n", "\n">>, <<"\n">>, <<"U3002">>, <<"UFF01">>, <<"UFF1F">>, <<".">>,
       <<"!">>, <<"?">>, <<";">>, <<"UFF1B">>, <<" ">>, <<>> >>

\* _split_text_with_regex with keep_separator: every separator opens the piece
\* that follows it; the empty pieces are dropped
SplitKeep(text, separator) ==
    IF separator = <<>> THEN [i \in 1..Len(text) |-> <<text[i]>>]
    ELSE Bind(FindSpans(Word(separator), text, 0), LAMBDA spans :
            LET n == Len(spans)
                start(k) == IF k = 0 THEN 1 ELSE spans[k].from + 1
                stop(k) == IF k = n THEN Len(text) ELSE spans[k + 1].from
                pieces == [k \in 1..(n + 1) |-> SubSeq(text, start(k - 1), stop(k - 1))]
            IN  SelectSeq(pieces, LAMBDA piece : piece # <<>>))

\* the while loop of _merge_splits: pieces leave the front of current_doc until
\* what is left is no longer than the overlap and leaves room for the next piece
DropForOverlap(p, current_doc, len) ==
    Bind(current_doc, LAMBDA doc :
        LET total(n) == SumLenIn(doc, n + 1, Len(doc))
            goes_on(n) == \/ total(n) > p.chunk_overlap
                          \/ (total(n) + len > p.chunk_size /\ total(n) > 0)
        IN  Bind(CHOOSE n \in 0..Len(doc) :
                     ~goes_on(n) /\ \A q \in 0..(n - 1) : goes_on(q), LAMBDA n :
                SubSeq(doc, n + 1, Len(doc))))

\* _join_docs and the append that follows: the window made of current_doc joins
\* docs unless it is empty once stripped
Emit(docs, current_doc) ==
    Bind(Strip(Join(current_doc)), LAMBDA doc :
        IF doc # <<>> THEN Append(docs, doc) ELSE docs)

\* the for loop of _merge_splits over splits[lo..hi], with the separator "":
\* at.docs are the windows made so far, at.current_doc the pieces of the
\* window being filled
RECURSIVE MergeSplitsIn(_, _, _, _, _)
MergeSplitsIn(p, splits, lo, hi, at) ==
    IF lo > hi THEN at
    ELSE IF lo = hi
    THEN Bind(at, LAMBDA st :
            Bind(splits[lo], LAMBDA d :
                IF SumLen(st.current_doc) + Len(d) > p.chunk_size
                   /\ st.current_doc # <<>>
                THEN [docs |-> Emit(st.docs, st.current_doc),
                      current_doc |->
                          Append(DropForOverlap(p, st.current_doc, Len(d)), d)]
                ELSE [docs |-> st.docs, current_doc |-> Append(st.current_doc, d)]))
    ELSE Bind((lo + hi) \div 2, LAMBDA mid :
            Bind(MergeSplitsIn(p, splits, lo, mid, at), LAMBDA half :
                MergeSplitsIn(p, splits, mid + 1, hi, half)))

\* _merge_splits
MergeSplits(p, splits) ==
    Bind(MergeSplitsIn(p, splits, 1, Len(splits), [docs |-> <<>>, current_doc |-> <<>>]),
         LAMBDA at : Emit(at.docs, at.current_doc))

\* _split_text
RECURSIVE SplitText(_, _, _), SplitPieces(_, _, _, _, _, _)

\* the windows of the pieces gathered in good_splits
Merged(p, good_splits) ==
    IF good_splits # <<>> THEN MergeSplits(p, good_splits) ELSE <<>>

\* the loop of _split_text over splits[lo..hi]: the short pieces are gathered in
\* at.good_splits and merged, a long one is split again with the separators that
\* remain; at.final_chunks are the windows made so far
SplitPieces(p, splits, lo, hi, at, new_separators) ==
    IF lo > hi THEN at
    ELSE IF lo = hi
    THEN Bind(at, LAMBDA st :
            Bind(splits[lo], LAMBDA s :
                IF Len(s) < p.chunk_size
                THEN [final_chunks |-> st.final_chunks,
                      good_splits |-> Append(st.good_splits, s)]
                ELSE [final_chunks |->
                          st.final_chunks \o Merged(p, st.good_splits)
                          \o (IF new_separators = <<>> THEN <<s>>
                              ELSE SplitText(p, s, new_separators)),
                      good_splits |-> <<>>]))
    ELSE Bind((lo + hi) \div 2, LAMBDA mid :
            Bind(SplitPieces(p, splits, lo, mid, at, new_separators), LAMBDA half :
                SplitPieces(p, splits, mid + 1, hi, half, new_separators)))

SplitText(p, text, separators) ==
    Bind({i \in 1..Len(separators) :
             separators[i] = <<>> \/ Search(Word(separators[i]), text)}, LAMBDA found :
        Bind(IF found = {} THEN Len(separators) ELSE SetMin(found), LAMBDA i :
            Bind(IF found = {} \/ separators[i] = <<>> THEN <<>>
                 ELSE SubSeq(separators, i + 1, Len(separators)), LAMBDA new_separators :
                Bind(SplitKeep(text, separators[i]), LAMBDA splits :
                    Bind(SplitPieces(p, splits, 1, Len(splits),
                                     [final_chunks |-> <<>>, good_splits |-> <<>>],
                                     new_separators), LAMBDA at :
                        at.final_chunks \o Merged(p, at.good_splits))))))

\* create_documents for one page: a new Document for every window, with a copy of
\* the metadata of the page
ChunksOfPage(p, page) ==
    Bind(SplitText(p, page.page_content, Separators), LAMBDA windows :
        [k \in 1..Len(windows) |->
            [page_content |-> windows[k], source_file |-> page.source_file,
             page |-> page.page]])

\* TextSplitter.split_documents
RECURSIVE SplitterSplitDocuments(_, _)
SplitterSplitDocuments(p, documents) ==
    Bind(documents, LAMBDA pages :
        IF pages = <<>> THEN <<>>
        ELSE ChunksOfPage(p, Head(pages)) \o SplitterSplitDocuments(p, Tail(pages)))

----------------------------------------------------------------------------
(* split_documents *)

\* lines 612-613: the text of every page of the list replaced by its cleaned text
CleanPages(documents) ==
    [i \in 1..Len(documents) |->
        [documents[i] EXCEPT !.page_content = CleanText(documents[i].page_content)]]

\* a call split_documents makes: the method, the texts it is given, the texts it
\* returns, and for a filter what it answers
Called(call, arg, ret, verdict) ==
    [call |-> call, arg |-> arg, ret |-> ret, verdict |-> verdict]

\* lines 623-636, the calls of the loop on one window: is_reference_chunk is
\* reached when is_garbage_chunk answers False, and neither without clean
FilterCalls(chunk, clean) ==
    IF ~clean THEN <<>>
    ELSE Bind(IsGarbageChunk(chunk.page_content).garbage, LAMBDA garbage :
            <<Called("is_garbage_chunk", <<chunk.page_content>>, <<>>, garbage)>>
            \o (IF garbage THEN <<>>
                ELSE <<Called("is_reference_chunk", <<chunk.page_content>>, <<>>,
                              IsReferenceChunk(chunk.page_content))>>))

\* the items of a list whose place in it has the property Keep
KeepWhere(list, Keep(_)) ==
    LET places == SelectSeq([k \in 1..Len(list) |-> k], Keep)
    IN  [j \in 1..Len(places) |-> list[places[j]]]

\* a filter that lets the windows is_garbage_chunk rejects through
OnlyReferenceFilter(chunks, filter_calls) ==
    KeepWhere(chunks, LAMBDA k :
        \A c \in 1..Len(filter_calls[k]) :
            filter_calls[k][c].call = "is_reference_chunk" => ~filter_calls[k][c].verdict)

\* a filter that returns the windows that pass, the last one first
NewestFirstFilter(chunks, filter_calls) ==
    LET kept == KeepWhere(chunks, LAMBDA k :
                    \A c \in 1..Len(filter_calls[k]) : ~filter_calls[k][c].verdict)
    IN  [k \in 1..Len(kept) |-> kept[Len(kept) + 1 - k]]

\* lines 623-636: the windows that pass both filters, or all of them without
\* clean.  filter_calls[k] is the calls the loop makes on the window chunks[k]; a call
\* that answers True ends the turn of the loop before the append.
FilteredChunks(chunks, filter_calls) ==
    KeepWhere(chunks, LAMBDA k : \A c \in 1..Len(filter_calls[k]) : ~filter_calls[k][c].verdict)

\* an indexing that counts from 1
WithChunkIndexFromOne(filtered_chunks) ==
    [k \in 1..Len(filtered_chunks) |->
        [page_content |-> filtered_chunks[k].page_content,
         source_file |-> filtered_chunks[k].source_file,
         page |-> filtered_chunks[k].page,
         chunk_index |-> k]]

\* lines 642-643
WithChunkIndex(filtered_chunks) ==
    [k \in 1..Len(filtered_chunks) |->
        [page_content |-> filtered_chunks[k].page_content,
         source_file |-> filtered_chunks[k].source_file,
         page |-> filtered_chunks[k].page,
         chunk_index |-> k - 1]]

\* the page_content of each Document of a list
TextsOf(documents) == [i \in 1..Len(documents) |-> documents[i].page_content]

\* the calls split_documents makes, in the order it makes them: kept is what
\* remove_references_section returned, cleaned the pages after lines 612-613,
\* chunks what the splitter returned, filter_calls the calls of the loop on each window
CallLog(documents, clean, kept, cleaned, chunks, filter_calls) ==
    (IF clean
     THEN <<Called("remove_references_section", TextsOf(documents), TextsOf(kept), FALSE)>>
          \o [i \in 1..Len(kept) |->
                 Called("clean_text", <<kept[i].page_content>>,
                        <<cleaned[i].page_content>>, FALSE)]
     ELSE <<>>)
    \o <<Called("text_splitter.split_documents", TextsOf(cleaned), TextsOf(chunks), FALSE)>>
    \o Join(filter_calls)

\* DocumentProcessor.split_documents on the processor p.  chunks is what the call
\* returns; documents is the list the caller passed, as the call leaves it: the
\* pages kept by remove_references_section are the caller's objects, and
\* line 613 assigns to their page_content.  log is the calls it made.
SplitDocumentsOp(p, documents, clean) ==
    Bind(IF clean THEN RemoveReferencesSection(documents) ELSE documents, LAMBDA kept :
        Bind(IF clean THEN CleanPages(kept) ELSE kept, LAMBDA cleaned :
            Bind(SplitterSplitDocuments(p, cleaned), LAMBDA chunks :
                Bind([k \in 1..Len(chunks) |-> FilterCalls(chunks[k], clean)] \o <<>>,
                     LAMBDA filter_calls :
                        [chunks |-> WithChunkIndex(FilteredChunks(chunks, filter_calls)),
                         documents |-> cleaned
                                       \o SubSeq(documents, Len(kept) + 1, Len(documents)),
                         log |-> CallLog(documents, clean, kept, cleaned, chunks, filter_calls)]))))

----------------------------------------------------------------------------
(* The texts is_garbage_chunk is called with; the comment over a text gives *)
(* its length and what it is made of.                                       *)

\* 0 characters: the empty text
TextEmpty ==
    <<>>

\* 99 characters: "deep nets " nine times and "deep nets"
TextProse99 ==
    <<"d", "e", "e", "p", " ", "n", "e", "t", "s", " ", "d", "e", "e", "p", " ", "n",
      "e", "t", "s", " ", "d", "e", "e", "p", " ", "n", "e", "t", "s", " ", "d", "e",
      "e", "p", " ", "n", "e", "t", "s", " ", "d", "e", "e", "p", " ", "n", "e", "t",
      "s", " ", "d", "e", "e", "p", " ", "n", "e", "t", "s", " ", "d", "e", "e", "p",
      " ", "n", "e", "t", "s", " ", "d", "e", "e", "p", " ", "n", "e", "t", "s", " ",
      "d", "e", "e", "p", " ", "n", "e", "t", "s", " ", "d", "e", "e", "p", " ", "n",
      "e", "t", "s">>

\* 100 characters: "deep nets " ten times
TextProse100 ==
    <<"d", "e", "e", "p", " ", "n", "e", "t", "s", " ", "d", "e", "e", "p", " ", "n",
      "e", "t", "s", " ", "d", "e", "e", "p", " ", "n", "e", "t", "s", " ", "d", "e",
      "e", "p", " ", "n", "e", "t", "s", " ", "d", "e", "e", "p", " ", "n", "e", "t",
      "s", " ", "d", "e", "e", "p", " ", "n", "e", "t", "s", " ", "d", "e", "e", "p",
      " ", "n", "e", "t", "s", " ", "d", "e", "e", "p", " ", "n", "e", "t", "s", " ",
      "d", "e", "e", "p", " ", "n", "e", "t", "s", " ", "d", "e", "e", "p", " ", "n",
      "e", "t", "s", " ">>

\* 154 characters: 18 names, an initial and a surname each, between commas
TextNames18 ==
    <<"A", ".", " ", "S", "m", "i", "t", "h", ",", " ", "B", ".", " ", "J", "o", "n",
      "e", "s", ",", " ", "C", ".", " ", "L", "e", "e", ",", " ", "D", ".", " ", "P",
      "a", "r", "k", ",", " ", "E", ".", " ", "K", "i", "m", ",", " ", "F", ".", " ",
      "C", "h", "o", "i", ",", " ", "G", ".", " ", "P", "a", "r", "k", ",", " ", "H",
      ".", " ", "Y", "o", "o", "n", ",", " ", "I", ".", " ", "S", "h", "i", "n", ",",
      " ", "J", ".", " ", "C", "h", "o", ",", " ", "K", ".", " ", "H", "a", "n", ",",
      " ", "L", ".", " ", "O", "h", ",", " ", "M", ".", " ", "S", "e", "o", ",", " ",
      "N", ".", " ", "K", "w", "o", "n", ",", " ", "O", ".", " ", "H", "w", "a", "n",
      "g", ",", " ", "P", ".", " ", "A", "h", "n", ",", " ", "Q", ".", " ", "S", "o",
      "n", "g", ",", " ", "R", ".", " ", "Y", "o", "o">>

\* 132 characters: 16 names, a given name and a surname each, between commas
TextFullNames16 ==
    <<"Y", "a", "n", "j", "i", "e", " ", "Z", "e", ",", " ", "G", "u", " ", "Z", "h",
      "a", "n", "g", ",", " ", "K", "a", "i", " ", "Z", "h", "a", "n", "g", ",", " ",
      "C", "h", "e", "n", " ", "H", "u", ",", " ", "M", "u", " ", "W", "a", "n", "g",
      ",", " ", "H", "u", "a", " ", "X", "u", ",", " ", "B", "o", " ", "L", "i", ",",
      " ", "A", "n", " ", "W", "u", ",", " ", "Y", "i", " ", "M", "a", ",", " ", "J",
      "o", " ", "F", "a", "n", ",", " ", "L", "e", " ", "S", "u", "n", ",", " ", "N",
      "a", " ", "L", "i", "n", ",", " ", "Z", "i", " ", "G", "a", "o", ",", " ", "X",
      "i", " ", "H", "e", ",", " ", "D", "u", " ", "L", "u", "o", ",", " ", "K", "e",
      " ", "T", "a", "n">>

\* 101 characters: "item_1 " ten times, then prose
TextRep10 ==
    <<"i", "t", "e", "m", "_", "1", " ", "i", "t", "e", "m", "_", "1", " ", "i", "t",
      "e", "m", "_", "1", " ", "i", "t", "e", "m", "_", "1", " ", "i", "t", "e", "m",
      "_", "1", " ", "i", "t", "e", "m", "_", "1", " ", "i", "t", "e", "m", "_", "1",
      " ", "i", "t", "e", "m", "_", "1", " ", "i", "t", "e", "m", "_", "1", " ", "i",
      "t", "e", "m", "_", "1", " ", "a", "r", "e", " ", "t", "h", "e", " ", "p", "a",
      "r", "t", "s", " ", "o", "f", " ", "t", "h", "e", " ", "a", "r", "m", " ", "w",
      "e", " ", "u", "s", "e">>

\* 101 characters: "item_1 " eleven times, then prose
TextRep11 ==
    <<"i", "t", "e", "m", "_", "1", " ", "i", "t", "e", "m", "_", "1", " ", "i", "t",
      "e", "m", "_", "1", " ", "i", "t", "e", "m", "_", "1", " ", "i", "t", "e", "m",
      "_", "1", " ", "i", "t", "e", "m", "_", "1", " ", "i", "t", "e", "m", "_", "1",
      " ", "i", "t", "e", "m", "_", "1", " ", "i", "t", "e", "m", "_", "1", " ", "i",
      "t", "e", "m", "_", "1", " ", "i", "t", "e", "m", "_", "1", " ", "a", "r", "e",
      " ", "t", "h", "e", " ", "p", "a", "r", "t", "s", " ", "o", "f", " ", "t", "h",
      "e", " ", "a", "r", "m">>

\* 101 characters: "item_1 " eight times, item_2, item_3, item_4, then prose
TextRep11Distinct4 ==
    <<"i", "t", "e", "m", "_", "1", " ", "i", "t", "e", "m", "_", "1", " ", "i", "t",
      "e", "m", "_", "1", " ", "i", "t", "e", "m", "_", "1", " ", "i", "t", "e", "m",
      "_", "1", " ", "i", "t", "e", "m", "_", "1", " ", "i", "t", "e", "m", "_", "1",
      " ", "i", "t", "e", "m", "_", "1", " ", "i", "t", "e", "m", "_", "2", " ", "i",
      "t", "e", "m", "_", "3", " ", "i", "t", "e", "m", "_", "4", " ", "a", "r", "e",
      " ", "t", "h", "e", " ", "p", "a", "r", "t", "s", " ", "o", "f", " ", "t", "h",
      "e", " ", "a", "r", "m">>

\* 100 characters: "d ###" fourteen times, then prose
TextGarbled ==
    <<"d", " ", "#", "#", "#", "d", " ", "#", "#", "#", "d", " ", "#", "#", "#", "d",
      " ", "#", "#", "#", "d", " ", "#", "#", "#", "d", " ", "#", "#", "#", "d", " ",
      "#", "#", "#", "d", " ", "#", "#", "#", "d", " ", "#", "#", "#", "d", " ", "#",
      "#", "#", "d", " ", "#", "#", "#", "d", " ", "#", "#", "#", "d", " ", "#", "#",
      "#", "d", " ", "#", "#", "#", " ", "n", "e", "t", "s", " ", "n", "e", "t", "s",
      " ", "n", "e", "t", "s", " ", "n", "e", "t", "s", " ", "n", "e", "t", "s", " ",
      "n", "e", "t", "s">>

\* 104 characters: two entries of a bibliography
TextRefList ==
    <<"S", "m", "i", "t", "h", ",", " ", "A", ".", " ", "a", "n", "d", " ", "J", "o",
      "n", "e", "s", ",", " ", "B", ".", " ", "D", "e", "e", "p", " ", "n", "e", "t",
      "s", ".", " ", "J", "o", "u", "r", "n", "a", "l", " ", "o", "f", " ", "N", "e",
      "t", "s", ",", " ", "3", "6", "(", "4", ")", ":", "1", "2", ",", " ", "2", "0",
      "2", "0", ".", " ", "L", "e", "e", ",", " ", "C", ".", " ", "W", "i", "d", "e",
      " ", "n", "e", "t", "s", ".", " ", "a", "r", "X", "i", "v", ":", "1", "2", "3",
      "4", ",", " ", "2", "0", "2", "1", ".">>

\* 107 characters: a title, two authors with superscripts, an institution, an address
TextTitlePage ==
    <<"D", "e", "e", "p", " ", "N", "e", "t", "s", " ", "f", "o", "r", " ", "A", "r",
      "m", "s", " ", "A", "n", "n", " ", "L", "e", "e", "1", ",", " ", "B", "o", "b",
      " ", "K", "i", "m", "2", " ", "1", "U", "n", "i", "v", "e", "r", "s", "i", "t",
      "y", " ", "o", "f", " ", "N", "e", "t", "s", " ", "a", "n", "n", "@", "n", "e",
      "t", "s", ".", "e", "d", "u", " ", "w", "e", " ", "s", "t", "u", "d", "y", " ",
      "d", "e", "e", "p", " ", "n", "e", "t", "s", " ", "f", "o", "r", " ", "a", "r",
      "m", "s", " ", "a", "n", "d", " ", "m", "o", "r", "e">>

\* 105 characters: the captions of a figure and of a table
TextFigTable ==
    <<"F", "i", "g", "u", "r", "e", " ", "1", ":", " ", "t", "h", "e", " ", "a", "r",
      "m", " ", "w", "i", "t", "h", " ", "d", "e", "e", "p", " ", "n", "e", "t", "s",
      " ", "a", "n", "d", " ", "T", "a", "b", "l", "e", " ", "2", ":", " ", "t", "h",
      "e", " ", "s", "c", "o", "r", "e", "s", " ", "o", "f", " ", "d", "e", "e", "p",
      " ", "n", "e", "t", "s", " ", "o", "n", " ", "t", "h", "e", " ", "a", "r", "m",
      " ", "f", "o", "r", " ", "a", "l", "l", " ", "t", "h", "e", " ", "t", "a", "s",
      "k", "s", " ", "w", "e", " ", "u", "s", "e">>

\* 104 characters: a funding statement
TextAck ==
    <<"t", "h", "i", "s", " ", "w", "o", "r", "k", " ", "w", "a", "s", " ", "s", "u",
      "p", "p", "o", "r", "t", "e", "d", " ", "b", "y", " ", "t", "h", "e", " ", "d",
      "e", "e", "p", " ", "n", "e", "t", "s", " ", "l", "a", "b", " ", "a", "n", "d",
      " ", "w", "e", " ", "t", "h", "a", "n", "k", " ", "t", "h", "e", " ", "p", "e",
      "o", "p", "l", "e", " ", "o", "f", " ", "t", "h", "e", " ", "l", "a", "b", " ",
      "f", "o", "r", " ", "t", "h", "e", " ", "a", "r", "m", " ", "t", "h", "e", "y",
      " ", "g", "a", "v", "e", " ", "u", "s">>

\* 104 characters: four keys of a robot description
TextUrdf ==
    <<"j", "o", "i", "n", "t", "_", "n", "a", "m", "e", ":", " ", "e", "l", "b", "o",
      "w", " ", "j", "o", "i", "n", "t", "_", "t", "y", "p", "e", ":", " ", "h", "i",
      "n", "g", "e", " ", "p", "a", "r", "e", "n", "t", "_", "l", "i", "n", "k", ":",
      " ", "u", "p", "p", "e", "r", " ", "c", "h", "i", "l", "d", "_", "l", "i", "n",
      "k", ":", " ", "l", "o", "w", "e", "r", " ", "a", "n", "d", " ", "t", "h", "e",
      " ", "r", "e", "s", "t", " ", "o", "f", " ", "t", "h", "e", " ", "a", "r", "m",
      " ", "i", "s", " ", "h", "e", "r", "e">>

\* 105 characters: twelve keys with values
TextColons ==
    <<"a", ":", " ", "b", " ", "c", ":", " ", "d", " ", "e", ":", " ", "f", " ", "g",
      ":", " ", "h", " ", "i", ":", " ", "j", " ", "k", ":", " ", "l", " ", "m", ":",
      " ", "n", " ", "o", ":", " ", "p", " ", "q", ":", " ", "r", " ", "s", ":", " ",
      "t", " ", "u", ":", " ", "v", " ", "w", ":", " ", "x", " ", "a", "n", "d", " ",
      "t", "h", "e", " ", "r", "e", "s", "t", " ", "o", "f", " ", "t", "h", "e", " ",
      "k", "e", "y", "s", " ", "o", "f", " ", "t", "h", "e", " ", "f", "i", "l", "e",
      " ", "a", "r", "e", " ", "h", "e", "r", "e">>

\* 120 characters: keys of a robot description, twelve colons, j_1 twelve times
TextUrdfColonsRep ==
    <<"j", "o", "i", "n", "t", "_", "n", "a", "m", "e", ":", " ", "j", "_", "1", " ",
      "j", "o", "i", "n", "t", "_", "t", "y", "p", "e", ":", " ", "j", "_", "1", " ",
      "p", "a", "r", "e", "n", "t", "_", "l", "i", "n", "k", ":", " ", "j", "_", "1",
      " ", "c", "h", "i", "l", "d", "_", "l", "i", "n", "k", ":", " ", "j", "_", "1",
      " ", "a", ":", " ", "j", "_", "1", " ", "b", ":", " ", "j", "_", "1", " ", "c",
      ":", " ", "j", "_", "1", " ", "d", ":", " ", "j", "_", "1", " ", "e", ":", " ",
      "j", "_", "1", " ", "f", ":", " ", "j", "_", "1", " ", "g", ":", " ", "j", "_",
      "1", " ", "h", ":", " ", "j", "_", "1">>

\* 105 characters: two captions, two authors with superscripts, an address
TextTitleFig ==
    <<"F", "i", "g", "u", "r", "e", " ", "1", ":", " ", "A", "n", "n", " ", "L", "e",
      "e", "1", ",", " ", "B", "o", "b", " ", "K", "i", "m", "2", " ", "a", "n", "d",
      " ", "T", "a", "b", "l", "e", " ", "2", ":", " ", "m", "a", "i", "l", " ", "a",
      "n", "n", "@", "n", "e", "t", "s", ".", "e", "d", "u", " ", "f", "o", "r", " ",
      "t", "h", "e", " ", "d", "e", "e", "p", " ", "n", "e", "t", "s", " ", "o", "f",
      " ", "t", "h", "e", " ", "a", "r", "m", " ", "a", "n", "d", " ", "a", "l", "l",
      " ", "t", "h", "e", " ", "r", "e", "s", "t">>

\* 42 characters: three keys of a robot description
TextShortUrdf ==
    <<"j", "o", "i", "n", "t", "_", "n", "a", "m", "e", ":", " ", "a", " ", "j", "o",
      "i", "n", "t", "_", "t", "y", "p", "e", ":", " ", "b", " ", "p", "a", "r", "e",
      "n", "t", "_", "l", "i", "n", "k", ":", " ", "c">>

ChunkTexts ==
    {TextEmpty, TextProse99, TextProse100, TextNames18, TextFullNames16,
     TextRep10, TextRep11, TextRep11Distinct4, TextGarbled, TextRefList,
     TextTitlePage, TextFigTable, TextAck, TextUrdf, TextColons,
     TextUrdfColonsRep, TextTitleFig, TextShortUrdf}

----------------------------------------------------------------------------
(* Calls of is_garbage_chunk *)

MaxClassify == 3

\* is_garbage_chunk on each text of ChunkTexts
GarbageOf == [text \in ChunkTexts |-> IsGarbageChunk(text)]

\* a call of is_garbage_chunk(text): it changes nothing of the processor
ClassifyChunk ==
    /\ Len(dp_calls) < MaxClassify
    /\ \E text \in ChunkTexts :
         dp_calls' = Append(dp_calls,
             [op |-> "is_garbage_chunk", text |-> text, ret |-> GarbageOf[text]])
    /\ UNCHANGED <<kg_vars, io_vars, processor, caller_documents, returned_chunks>>

NextClassify == ClassifyChunk

SpecClassify == Init /\ [][NextClassify]_vars

----------------------------------------------------------------------------
(* The pages remove_references_section and split_documents are called with *)
\* 220 characters: two paragraphs of prose
PageProse ==
    <<"d", "e", "e", "p", " ", "n", "e", "t", "s", " ", "d", "e", "e", "p", " ", "n",
      "e", "t", "s", " ", "d", "e", "e", "p", " ", "n", "e", "t", "s", " ", "d", "e",
      "e", "p", " ", "n", "e", "t", "s", " ", "d", "e", "e", "p", " ", "n", "e", "t",
      "s", " ", "d", "e", "e", "p", " ", "n", "e", "t", "s", " ", "d", "e", "e", "p",
      " ", "n", "e", "t", "s", " ", "d", "e", "e", "p", " ", "n", "e", "t", "s", " ",
      "d", "e", "e", "p", " ", "n", "e", "t", "s", " ", "d", "e", "e", "p", " ", "n",
      "e", "t", "s", " ", "d", "e", "e", "p", " ", "n", "e", "t", "s", "\n", "\n", "w",
      "i", "d", "e", " ", "a", "r", "m", "s", " ", "w", "i", "d", "e", " ", "a", "r",
      "m", "s", " ", "w", "i", "d", "e", " ", "a", "r", "m", "s", " ", "w", "i", "d",
      "e", " ", "a", "r", "m", "s", " ", "w", "i", "d", "e", " ", "a", "r", "m", "s",
      " ", "w", "i", "d", "e", " ", "a", "r", "m", "s", " ", "w", "i", "d", "e", " ",
      "a", "r", "m", "s", " ", "w", "i", "d", "e", " ", "a", "r", "m", "s", " ", "w",
      "i", "d", "e", " ", "a", "r", "m", "s", " ", "w", "i", "d", "e", " ", "a", "r",
      "m", "s", " ", "w", "i", "d", "e", " ", "a", "r", "m", "s">>

\* 416 characters: leading blanks, a paragraph, four newlines, the 18 names, a page number, a paragraph, a run of digits with an escape
PageDirty ==
    <<" ", " ", "d", "e", "e", "p", " ", "n", "e", "t", "s", " ", "d", "e", "e", "p",
      " ", "n", "e", "t", "s", " ", "d", "e", "e", "p", " ", "n", "e", "t", "s", " ",
      "d", "e", "e", "p", " ", "n", "e", "t", "s", " ", "d", "e", "e", "p", " ", "n",
      "e", "t", "s", " ", "d", "e", "e", "p", " ", "n", "e", "t", "s", " ", "d", "e",
      "e", "p", " ", "n", "e", "t", "s", " ", "d", "e", "e", "p", " ", "n", "e", "t",
      "s", " ", "d", "e", "e", "p", " ", "n", "e", "t", "s", " ", "d", "e", "e", "p",
      " ", "n", "e", "t", "s", " ", "d", "e", "e", "p", " ", "n", "e", "t", "s", "\n",
      "\n", "\n", "\n", "A", ".", " ", "S", "m", "i", "t", "h", ",", " ", "B", ".", " ",
      "J", "o", "n", "e", "s", ",", " ", "C", ".", " ", "L", "e", "e", ",", " ", "D",
      ".", " ", "P", "a", "r", "k", ",", " ", "E", ".", " ", "K", "i", "m", ",", " ",
      "F", ".", " ", "C", "h", "o", "i", ",", " ", "G", ".", " ", "P", "a", "r", "k",
      ",", " ", "H", ".", " ", "Y", "o", "o", "n", ",", " ", "I", ".", " ", "S", "h",
      "i", "n", ",", " ", "J", ".", " ", "C", "h", "o", ",", " ", "K", ".", " ", "H",
      "a", "n", ",", " ", "L", ".", " ", "O", "h", ",", " ", "M", ".", " ", "S", "e",
      "o", ",", " ", "N", ".", " ", "K", "w", "o", "n", ",", " ", "O", ".", " ", "H",
      "w", "a", "n", "g", ",", " ", "P", ".", " ", "A", "h", "n", ",", " ", "Q", ".",
      " ", "S", "o", "n", "g", ",", " ", "R", ".", " ", "Y", "o", "o", "\n", "\n", "P",
      "a", "g", "e", " ", "3", " ", "o", "f", " ", "1", "0", "\n", "\n", "w", "i", "d",
      "e", " ", "a", "r", "m", "s", " ", "w", "i", "d", "e", " ", "a", "r", "m", "s",
      " ", "w", "i", "d", "e", " ", "a", "r", "m", "s", " ", "w", "i", "d", "e", " ",
      "a", "r", "m", "s", " ", "w", "i", "d", "e", " ", "a", "r", "m", "s", " ", "w",
      "i", "d", "e", " ", "a", "r", "m", "s", " ", "w", "i", "d", "e", " ", "a", "r",
      "m", "s", " ", "w", "i", "d", "e", " ", "a", "r", "m", "s", " ", "w", "i", "d",
      "e", " ", "a", "r", "m", "s", " ", "w", "i", "d", "e", " ", "a", "r", "m", "s",
      " ", "w", "i", "d", "e", " ", "a", "r", "m", "s", " ", " ", " ", "0", "0", "0",
      "5", "7", "1", "/", "u", "n", "i", "0", "0", "4", "1", "a", "b", "c", "d", " ">>

\* 72 characters: the heading References and two entries
PageRefs ==
    <<"R", "e", "f", "e", "r", "e", "n", "c", "e", "s", "\n", "[", "1", "]", " ", "S",
      "m", "i", "t", "h", ",", " ", "A", ".", " ", "2", "0", "2", "0", ".", " ", "D",
      "e", "e", "p", " ", "n", "e", "t", "s", ".", "\n", "[", "2", "]", " ", "J", "o",
      "n", "e", "s", ",", " ", "B", ".", " ", "2", "0", "1", "9", ".", " ", "W", "i",
      "d", "e", " ", "a", "r", "m", "s", ".">>

\* 139 characters: an entry and a paragraph
PageRefs2 ==
    <<"[", "3", "]", " ", "L", "e", "e", ",", " ", "C", ".", " ", "2", "0", "2", "1",
      ".", " ", "L", "o", "n", "g", " ", "a", "r", "m", "s", ".", "\n", "\n", "d", "e",
      "e", "p", " ", "n", "e", "t", "s", " ", "d", "e", "e", "p", " ", "n", "e", "t",
      "s", " ", "d", "e", "e", "p", " ", "n", "e", "t", "s", " ", "d", "e", "e", "p",
      " ", "n", "e", "t", "s", " ", "d", "e", "e", "p", " ", "n", "e", "t", "s", " ",
      "d", "e", "e", "p", " ", "n", "e", "t", "s", " ", "d", "e", "e", "p", " ", "n",
      "e", "t", "s", " ", "d", "e", "e", "p", " ", "n", "e", "t", "s", " ", "d", "e",
      "e", "p", " ", "n", "e", "t", "s", " ", "d", "e", "e", "p", " ", "n", "e", "t",
      "s", " ", "d", "e", "e", "p", " ", "n", "e", "t", "s">>

\* 128 characters: a blank line, the heading "6. REFERENCES" between blanks, a paragraph
PageNumbered ==
    <<"\n", " ", " ", "6", ".", " ", "R", "E", "F", "E", "R", "E", "N", "C", "E", "S",
      " ", " ", "\n", "w", "i", "d", "e", " ", "a", "r", "m", "s", " ", "w", "i", "d",
      "e", " ", "a", "r", "m", "s", " ", "w", "i", "d", "e", " ", "a", "r", "m", "s",
      " ", "w", "i", "d", "e", " ", "a", "r", "m", "s", " ", "w", "i", "d", "e", " ",
      "a", "r", "m", "s", " ", "w", "i", "d", "e", " ", "a", "r", "m", "s", " ", "w",
      "i", "d", "e", " ", "a", "r", "m", "s", " ", "w", "i", "d", "e", " ", "a", "r",
      "m", "s", " ", "w", "i", "d", "e", " ", "a", "r", "m", "s", " ", "w", "i", "d",
      "e", " ", "a", "r", "m", "s", " ", "w", "i", "d", "e", " ", "a", "r", "m", "s">>

\* 140 characters: ten lines of one letter, References as the eleventh line, a paragraph
PageLate ==
    <<"a", "\n", "b", "\n", "c", "\n", "d", "\n", "e", "\n", "f", "\n", "g", "\n", "h",
      "\n", "i", "\n", "j", "\n", "R", "e", "f", "e", "r", "e", "n", "c", "e", "s", "\n",
      "d", "e", "e", "p", " ", "n", "e", "t", "s", " ", "d", "e", "e", "p", " ", "n",
      "e", "t", "s", " ", "d", "e", "e", "p", " ", "n", "e", "t", "s", " ", "d", "e",
      "e", "p", " ", "n", "e", "t", "s", " ", "d", "e", "e", "p", " ", "n", "e", "t",
      "s", " ", "d", "e", "e", "p", " ", "n", "e", "t", "s", " ", "d", "e", "e", "p",
      " ", "n", "e", "t", "s", " ", "d", "e", "e", "p", " ", "n", "e", "t", "s", " ",
      "d", "e", "e", "p", " ", "n", "e", "t", "s", " ", "d", "e", "e", "p", " ", "n",
      "e", "t", "s", " ", "d", "e", "e", "p", " ", "n", "e", "t", "s">>

\* 140 characters: a sentence that holds the word references
PageMention ==
    <<"s", "e", "e", " ", "t", "h", "e", " ", "r", "e", "f", "e", "r", "e", "n", "c",
      "e", "s", " ", "f", "o", "r", " ", "m", "o", "r", "e", " ", "o", "f", " ", "w",
      "i", "d", "e", " ", "a", "r", "m", "s", " ", "w", "i", "d", "e", " ", "a", "r",
      "m", "s", " ", "w", "i", "d", "e", " ", "a", "r", "m", "s", " ", "w", "i", "d",
      "e", " ", "a", "r", "m", "s", " ", "w", "i", "d", "e", " ", "a", "r", "m", "s",
      " ", "w", "i", "d", "e", " ", "a", "r", "m", "s", " ", "w", "i", "d", "e", " ",
      "a", "r", "m", "s", " ", "w", "i", "d", "e", " ", "a", "r", "m", "s", " ", "w",
      "i", "d", "e", " ", "a", "r", "m", "s", " ", "w", "i", "d", "e", " ", "a", "r",
      "m", "s", " ", "w", "i", "d", "e", " ", "a", "r", "m", "s">>

\* 7 characters: "the end"
PageShort ==
    <<"t", "h", "e", " ", "e", "n", "d">>

\* the Document of a loader: the page numbers count from 1
Page(page_content, page) ==
    [page_content |-> page_content, source_file |-> <<"f", ".", "p", "d", "f">>, page |-> page]

\* the lists of pages of one file
ListScenario == <<Page(PageProse, 1), Page(PageRefs, 2), Page(PageRefs2, 3)>>

ListOnlyProse == <<Page(PageProse, 1)>>

ListRefsFirst == <<Page(PageRefs, 1), Page(PageProse, 2)>>

ListDirty == <<Page(PageDirty, 1), Page(PageShort, 2), Page(PageMention, 3)>>

ListLate == <<Page(PageLate, 1), Page(PageNumbered, 2), Page(PageProse, 3)>>

ListTwoHeadings == <<Page(PageMention, 1), Page(PageRefs, 2), Page(PageLate, 3), Page(PageNumbered, 4)>>

ListEmpty == <<>>

PageLists ==
    {ListScenario, ListOnlyProse, ListRefsFirst, ListDirty, ListLate, ListTwoHeadings, ListEmpty}

----------------------------------------------------------------------------
(* Calls of remove_references_section *)

MaxTruncate == 3

\* remove_references_section on each list of PageLists and on what it returns
TruncateOf ==
    [pages \in PageLists \cup {RemoveReferencesSection(list) : list \in PageLists} |->
        RemoveReferencesSection(pages)]

\* a call of remove_references_section(documents): the list it returns shares its
\* pages with the list it was given, which it leaves as it was
RemoveReferences ==
    /\ Len(dp_calls) < MaxTruncate
    /\ \E pages \in PageLists :
         /\ caller_documents' = pages
         /\ dp_calls' = Append(dp_calls,
                [op |-> "remove_references_section", documents |-> pages,
                 ret |-> TruncateOf[pages]])
    /\ UNCHANGED <<kg_vars, io_vars, processor, returned_chunks>>

\* a call of remove_references_section on the list the last call returned
RemoveReferencesAgain ==
    /\ Len(dp_calls) < MaxTruncate
    /\ dp_calls # <<>>
    /\ LET pages == dp_calls[Len(dp_calls)].ret
       IN  /\ caller_documents' = pages
           /\ dp_calls' = Append(dp_calls,
                  [op |-> "remove_references_section", documents |-> pages,
                   ret |-> TruncateOf[pages]])
    /\ UNCHANGED <<kg_vars, io_vars, processor, returned_chunks>>

NextTruncate ==
    \/ RemoveReferences
    \/ RemoveReferencesAgain

SpecTruncate == Init /\ [][NextTruncate]_vars

----------------------------------------------------------------------------
(* Calls of split_documents *)

MaxSplits == 2

\* the processors: one with windows of a paragraph, one with the sizes of config.py
Processors ==
    {[chunk_size |-> 130, chunk_overlap |-> 20],
     [chunk_size |-> CHUNK_SIZE, chunk_overlap |-> CHUNK_OVERLAP]}

\* split_documents of each processor on each list of PageLists
SplitOf ==
    [p \in Processors, pages \in PageLists, clean \in BOOLEAN |->
        SplitDocumentsOp(p, pages, clean)]

InitAnyProcessor ==
    /\ InitGraph
    /\ \E p \in Processors : InitProcessor(p.chunk_size, p.chunk_overlap)
    /\ InitIO

\* a call of split_documents(documents, clean) with the pages of a newly loaded file
SplitDocuments ==
    /\ Len(dp_calls) < MaxSplits
    /\ \E pages \in PageLists, clean \in BOOLEAN :
         LET r == SplitOf[processor, pages, clean]
         IN  /\ caller_documents' = r.documents
             /\ returned_chunks' = r.chunks
             /\ dp_calls' = Append(dp_calls,
                    [op |-> "split_documents", documents |-> pages, clean |-> clean,
                     log |-> r.log])
    /\ UNCHANGED <<kg_vars, io_vars, processor>>

NextSplit == SplitDocuments

SpecSplit == InitAnyProcessor /\ [][NextSplit]_vars

----------------------------------------------------------------------------
(* Claims about split_documents *)

\* the last call of split_documents
LastSplit == dp_calls[Len(dp_calls)]

\* C12: whatever split_documents was called with and whichever windows its filters
\* dropped, the chunk_index values of the chunks it returned are 0, 1, ..., N-1 in
\* the order of the list: the k-th chunk, counted from 1, carries k - 1.
C12_ChunkIndexContiguous ==
    \A k \in 1..Len(returned_chunks) : returned_chunks[k].chunk_index = k - 1

\* split_documents(ListDirty, clean=True) with windows of 130 characters: the
\* splitter made more windows than the three that are returned, the third of which
\* comes from page 3 and carries the index 2
C12_Witness ==
    /\ dp_calls # <<>>
    /\ LastSplit.documents = ListDirty /\ LastSplit.clean
    /\ processor.chunk_size = 130
    /\ Len(returned_chunks) = 3
    /\ returned_chunks[3].page = 3 /\ returned_chunks[3].chunk_index = 2
    /\ Len(SplitterSplitDocuments(processor, caller_documents)) > 3

\* the texts of the chunks split_documents returns, over all the calls of SplitOf
ReturnedTexts ==
    UNION {{SplitOf[p, pages, clean].chunks[k].page_content :
               k \in 1..Len(SplitOf[p, pages, clean].chunks)} :
           p \in Processors, pages \in PageLists, clean \in BOOLEAN}

\* is_garbage_chunk on each of them
NoiseOf == [text \in ReturnedTexts |-> IsGarbageChunk(text).garbage]

\* C13 as stated: whatever the pages and the parameters of the call, every chunk
\* split_documents returned is not noise for is_garbage_chunk and has at least 100
\* characters.
C13_EveryReturnedChunkNotNoise ==
    \A k \in 1..Len(returned_chunks) :
        /\ ~NoiseOf[returned_chunks[k].page_content]
        /\ Len(returned_chunks[k].page_content) >= 100

\* C13, amended: every chunk returned by a call of split_documents with clean=True
\* is not noise for is_garbage_chunk and has at least 100 characters.
C13_CleanCallReturnsNoNoise ==
    (dp_calls # <<>> /\ LastSplit.clean) =>
        \A k \in 1..Len(returned_chunks) :
            /\ ~NoiseOf[returned_chunks[k].page_content]
            /\ Len(returned_chunks[k].page_content) >= 100

\* split_documents(ListDirty, clean=True) with the sizes of config.py: of the three
\* windows of the cleaned pages, the one of page 1 is noise and the one of page 2
\* is 7 characters long; the call returns the window of page 3 alone
C13_Witness ==
    /\ dp_calls # <<>>
    /\ LastSplit.documents = ListDirty /\ LastSplit.clean
    /\ processor.chunk_size = CHUNK_SIZE
    /\ Len(returned_chunks) = 1 /\ returned_chunks[1].page = 3
    /\ LET windows == SplitterSplitDocuments(processor, caller_documents)
       IN  /\ Len(windows) = 3
           /\ IsGarbageChunk(windows[1].page_content).garbage
           /\ Len(windows[2].page_content) = 7

----------------------------------------------------------------------------
(* Claims about remove_references_section *)

\* the texts of the pages of PageLists
PageTexts == UNION {{pages[i].page_content : i \in 1..Len(pages)} : pages \in PageLists}

\* whether one of the first ten lines of the text is a reference heading
HeadingOf == [content \in PageTexts |-> HasReferenceHeading(content)]

\* the pages of the list that have a reference heading within their first ten lines
HeadingPages(pages) == {i \in 1..Len(pages) : HeadingOf[pages[i].page_content]}

\* C14: every call of remove_references_section returned a prefix of the list it
\* was given: the pages before the first page with a reference heading within its
\* first ten lines, in their order, none if that page is the first; the whole list
\* if no page has one.
C14_TruncateReturnsPrefix ==
    \A i \in 1..Len(dp_calls) :
        LET pages == dp_calls[i].documents
            hits == HeadingPages(pages)
        IN  dp_calls[i].ret = IF hits = {} THEN pages
                              ELSE SubSeq(pages, 1, SetMin(hits) - 1)

\* three calls: the list of the scenario, of which the first page is returned; a
\* list whose first page has the heading, of which nothing is returned; a list
\* without a heading, returned whole
C14_Witness ==
    /\ Len(dp_calls) = 3
    /\ dp_calls[1].documents = ListScenario /\ dp_calls[1].ret = <<Page(PageProse, 1)>>
    /\ dp_calls[2].documents = ListRefsFirst /\ dp_calls[2].ret = <<>>
    /\ dp_calls[3].documents = ListDirty /\ dp_calls[3].ret = ListDirty

\* C15: remove_references_section called on a list it returned returns that list:
\* whenever a call was given what the call before it returned, it returned what
\* it was given.
C15_TruncateIdempotent ==
    \A i \in 2..Len(dp_calls) :
        dp_calls[i].documents = dp_calls[i - 1].ret =>
            dp_calls[i].ret = dp_calls[i - 1].ret

\* the list with two headings loses its last three pages in the first call; the
\* second call is given the page that is left and returns it
C15_Witness ==
    /\ Len(dp_calls) >= 2
    /\ dp_calls[1].documents = ListTwoHeadings
    /\ dp_calls[1].ret = <<Page(PageMention, 1)>>
    /\ dp_calls[2].documents = dp_calls[1].ret
    /\ dp_calls[2].ret = <<Page(PageMention, 1)>>

----------------------------------------------------------------------------
(* Claims about is_garbage_chunk *)

\* C16: every call of is_garbage_chunk with a text of fewer than 100 characters,
\* the empty text among them, returned noise by the too-short check; no call with
\* a text of exactly 100 characters was decided by the too-short check, and the
\* 100 characters of prose are not noise.
C16_TooShortBelow100 ==
    \A i \in 1..Len(dp_calls) :
        LET call == dp_calls[i]
        IN  /\ Len(call.text) < 100 => call.ret = [garbage |-> TRUE, rule |-> "too_short"]
            /\ Len(call.text) = 100 => call.ret.rule # "too_short"
            /\ call.text = TextProse100 => ~call.ret.garbage

\* the empty text and the 99 characters of prose are noise by the too-short check,
\* the 100 characters of prose are not noise
C16_Witness ==
    /\ Len(dp_calls) = 3
    /\ dp_calls[1].text = TextEmpty /\ dp_calls[1].ret.rule = "too_short"
    /\ dp_calls[2].text = TextProse99 /\ dp_calls[2].ret.rule = "too_short"
    /\ dp_calls[3].text = TextProse100 /\ Len(TextProse100) = 100
    /\ ~dp_calls[3].ret.garbage

\* C17: every call of is_garbage_chunk with the 18 names "A. Smith, B. Jones, ..."
\* returned noise, and the check that returned it is the author list.
C17_Names18IsAuthorList ==
    \A i \in 1..Len(dp_calls) :
        dp_calls[i].text = TextNames18 =>
            dp_calls[i].ret = [garbage |-> TRUE, rule |-> "author_list"]

\* the author-list rule as the rule table states it: 15 commas or more, an average
\* segment between commas under 25 characters, and more than 60% of the tokens
\* between white space starting with an upper-case letter
AuthorListRule(text) ==
    LET tokens == Matched(Plus(NotIn(SpaceChars)), text)
        upper == {k \in 1..Len(tokens) : tokens[k][1] \in UpperChars}
        segments == SelectSeq([k \in 1..(CountChar(text, ",") + 1) |->
                                  Strip(SplitOn(text, ",")[k])],
                              LAMBDA seg : seg # <<>>)
    IN  /\ CountChar(text, ",") >= 15
        /\ segments # <<>>
        /\ SumLen(segments) < 25 * Len(segments)
        /\ 10 * Cardinality(upper) > 6 * Len(tokens)

\* the degenerate-repetition rule as the rule table states it: 10 matches of the
\* token shape or more, and fewer than 0.3 distinct tokens per match
RepetitionRule(text) ==
    LET matches == Matched(RepeatedPattern, text)
        distinct == {matches[k] : k \in 1..Len(matches)}
    IN  /\ Len(matches) >= 10
        /\ 10 * Cardinality(distinct) < 3 * Len(matches)

\* the ten rules in their order, by the names of the checks
RuleOrder ==
    <<"too_short", "meaningful_ratio", "author_list", "reference_list", "title_page",
      "figure_table", "acknowledgment", "config_file", "colon_density",
      "repeated_pattern">>

\* which of the ten rules fire on a text, each taken alone
RuleFires(text) ==
    <<TooShort(text), LowMeaningfulRatio(text), AuthorListRule(text),
      ReferenceList(text), TitlePage(text), FigureTable(text), Acknowledgment(text),
      ConfigFile(text), ColonDensity(text), RepetitionRule(text)>>

FiresOf == [text \in ChunkTexts |-> RuleFires(text)]

\* C18: for every text that no earlier rule rejects, is_garbage_chunk returned
\* noise exactly when the text has 10 matches of the token shape or more and fewer
\* than 0.3 distinct tokens per match; so the text with exactly 10 matches of one
\* token is noise.
C18_RepetitionFiresFromTen ==
    \A i \in 1..Len(dp_calls) :
        LET call == dp_calls[i]
        IN  (\A k \in 1..9 : ~FiresOf[call.text][k]) =>
                (call.ret.garbage <=> FiresOf[call.text][10])

\* C19: is_garbage_chunk returned noise exactly when one of the ten rules fires on
\* the text, and the check that returned it is the first of the rules that fire,
\* in the order of RuleOrder.
C19_FirstFiringRuleDecides ==
    \A i \in 1..Len(dp_calls) :
        LET call == dp_calls[i]
            firing == {k \in 1..10 : FiresOf[call.text][k]}
        IN  /\ call.ret.garbage <=> firing # {}
            /\ firing # {} => call.ret.rule = RuleOrder[SetMin(firing)]

\* C20: after split_documents has returned, the pages of the list it was given
\* have the text, the page number and the source file they had before the call.
C20_InputPagesUnchanged ==
    dp_calls # <<>> => caller_documents = LastSplit.documents

----------------------------------------------------------------------------
(***************************************************************************)
(* Model of core/entity_extractor.py.                                      *)
(*                                                                         *)
(* json.loads.  A JSON value is a record [t, s, keys, items]: t is "str",  *)
(* "num", "true", "false", "null", "list" or "dict"; s the characters of a *)
(* string, or the text of a number; items the elements of a list, or the   *)
(* values of a dict in the order of its keys.  A parser returns [ok, v,    *)
(* at]: at is the offset after the value; ok is FALSE where json.loads     *)
(* raises JSONDecodeError.                                                 *)
(***************************************************************************)

JStr(s) == [t |-> "str", s |-> s, keys |-> <<>>, items |-> <<>>]
JNum(s) == [t |-> "num", s |-> s, keys |-> <<>>, items |-> <<>>]
JLit(name) == [t |-> name, s |-> <<>>, keys |-> <<>>, items |-> <<>>]
JList(items) == [t |-> "list", s |-> <<>>, keys |-> <<>>, items |-> items]
JDict(keys, items) == [t |-> "dict", s |-> <<>>, keys |-> keys, items |-> items]

ParseFail == [ok |-> FALSE, v |-> JLit("null"), at |-> 0]

Parsed(v, at) == [ok |-> TRUE, v |-> v, at |-> at]

\* the offset after the white space that starts at offset i
SkipSpace(s, i) == i + RunLen(In(SpaceChars), s, i)

\* s.startswith(w, i)
StartsWith(s, i, w) == i + Len(w) <= Len(s) /\ SubSeq(s, i + 1, i + Len(w)) = w

\* the character a backslash and c stand for in a JSON string
Escapes == {"\"", "\\", "/", "n", "t", "r"}

Unescape(c) ==
    CASE c = "n" -> "\n"
      [] c = "t" -> "\t"
      [] c = "r" -> "\r"
      [] OTHER -> c

\* a JSON string from offset i on, the offset after its opening quote: the
\* characters up to the closing quote.  A control character ends the parse.
RECURSIVE ScanString(_, _, _)
ScanString(s, i, acc) ==
    IF i >= Len(s) THEN ParseFail
    ELSE IF s[i + 1] = "\"" THEN Parsed(JStr(acc), i + 1)
    ELSE IF s[i + 1] = "\\"
    THEN IF i + 1 < Len(s) /\ s[i + 2] \in Escapes
         THEN ScanString(s, i + 2, Append(acc, Unescape(s[i + 2])))
         ELSE ParseFail
    ELSE IF s[i + 1] \in {"\n", "\t", "\r"} THEN ParseFail
    ELSE ScanString(s, i + 1, Append(acc, s[i + 1]))

\* NUMBER_RE of json.scanner: (-?(?:0|[1-9]\d*))(\.\d+)?([eE][-+]?\d+)?
NumberPattern ==
    Cat(<<Opt(Lit("-")),
          Alt(<<Lit("0"), Cat(<<In(Digits \ {"0"}), Star(In(Digits))>>)>>),
          Opt(Cat(<<Lit("."), Plus(In(Digits))>>)),
          Opt(Cat(<<In({"e", "E"}), Opt(In({"-", "+"})), Plus(In(Digits))>>))>>)

RECURSIVE ParseValue(_, _), ParseItems(_, _, _), ParseMembers(_, _, _)

\* the value that starts at offset i
ParseValue(s, i) ==
    IF i >= Len(s) THEN ParseFail
    ELSE CASE s[i + 1] = "\"" -> ScanString(s, i + 1, <<>>)
           [] s[i + 1] = "[" ->
                Bind(SkipSpace(s, i + 1), LAMBDA j :
                    IF j < Len(s) /\ s[j + 1] = "]" THEN Parsed(JList(<<>>), j + 1)
                    ELSE ParseItems(s, j, <<>>))
           [] s[i + 1] = "{" ->
                Bind(SkipSpace(s, i + 1), LAMBDA j :
                    IF j < Len(s) /\ s[j + 1] = "}" THEN Parsed(JDict(<<>>, <<>>), j + 1)
                    ELSE ParseMembers(s, j, JDict(<<>>, <<>>)))
           [] StartsWith(s, i, <<"t", "r", "u", "e">>) -> Parsed(JLit("true"), i + 4)
           [] StartsWith(s, i, <<"f", "a", "l", "s", "e">>) -> Parsed(JLit("false"), i + 5)
           [] StartsWith(s, i, <<"n", "u", "l", "l">>) -> Parsed(JLit("null"), i + 4)
           [] OTHER ->
                Bind(Ends(NumberPattern, s, i), LAMBDA ends :
                    IF ends = <<>> THEN ParseFail
                    ELSE Parsed(JNum(SubSeq(s, i + 1, ends[1])), ends[1]))

\* the elements of a list from offset i on, items the elements before
ParseItems(s, i, items) ==
    Bind(ParseValue(s, i), LAMBDA e :
        IF ~e.ok THEN ParseFail
        ELSE Bind(SkipSpace(s, e.at), LAMBDA j :
                IF j >= Len(s) THEN ParseFail
                ELSE IF s[j + 1] = "]" THEN Parsed(JList(Append(items, e.v)), j + 1)
                ELSE IF s[j + 1] = ","
                THEN ParseItems(s, SkipSpace(s, j + 1), Append(items, e.v))
                ELSE ParseFail))

\* d[key] = v: a new key goes last, an old key keeps its place
JsonSet(d, key, v) ==
    LET at == {k \in 1..Len(d.keys) : d.keys[k] = key}
    IN  IF at = {} THEN JDict(Append(d.keys, key), Append(d.items, v))
        ELSE JDict(d.keys, [k \in 1..Len(d.items) |-> IF k \in at THEN v ELSE d.items[k]])

\* the "key": value pairs of an object from offset i on, d the pairs before
ParseMembers(s, i, d) ==
    IF i >= Len(s) \/ s[i + 1] # "\"" THEN ParseFail
    ELSE Bind(ScanString(s, i + 1, <<>>), LAMBDA key :
        IF ~key.ok THEN ParseFail
        ELSE Bind(SkipSpace(s, key.at), LAMBDA c :
            IF c >= Len(s) \/ s[c + 1] # ":" THEN ParseFail
            ELSE Bind(ParseValue(s, SkipSpace(s, c + 1)), LAMBDA e :
                IF ~e.ok THEN ParseFail
                ELSE Bind(SkipSpace(s, e.at), LAMBDA j :
                    IF j >= Len(s) THEN ParseFail
                    ELSE IF s[j + 1] = "}" THEN Parsed(JsonSet(d, key.v.s, e.v), j + 1)
                    ELSE IF s[j + 1] = ","
                    THEN ParseMembers(s, SkipSpace(s, j + 1), JsonSet(d, key.v.s, e.v))
                    ELSE ParseFail))))

\* json.loads(s): one value with nothing but white space around it
JsonLoads(s) ==
    Bind(ParseValue(s, SkipSpace(s, 0)), LAMBDA r :
        IF r.ok /\ SkipSpace(s, r.at) = Len(s) THEN r ELSE ParseFail)

\* d.get(key, []) of a dict
JsonGet(d, key) ==
    LET at == {k \in 1..Len(d.keys) : d.keys[k] = key}
    IN  IF at = {} THEN JList(<<>>) ELSE d.items[CHOOSE k \in at : TRUE]

\* bool(v)
Truthy(v) ==
    CASE v.t = "str" -> v.s # <<>>
      [] v.t = "num" -> \E i \in 1..Len(v.s) : v.s[i] \in Digits \ {"0"}
      [] v.t = "true" -> TRUE
      [] v.t \in {"false", "null"} -> FALSE
      [] v.t = "list" -> v.items # <<>>
      [] v.t = "dict" -> v.keys # <<>>

\* sep.join(list)
RECURSIVE JoinWith(_, _)
JoinWith(sep, list) ==
    IF list = <<>> THEN <<>>
    ELSE IF Len(list) = 1 THEN list[1]
    ELSE list[1] \o sep \o JoinWith(sep, Tail(list))

\* repr(v); a number is an int, or a float written as repr writes it
RECURSIVE Repr(_)
Repr(v) ==
    CASE v.t = "str" -> <<"'">> \o v.s \o <<"'">>
      [] v.t = "num" -> IF v.s = <<"-", "0">> THEN <<"0">> ELSE v.s
      [] v.t = "true" -> <<"T", "r", "u", "e">>
      [] v.t = "false" -> <<"F", "a", "l", "s", "e">>
      [] v.t = "null" -> <<"N", "o", "n", "e">>
      [] v.t = "list" ->
            <<"[">> \o JoinWith(<<",", " ">>, [k \in 1..Len(v.items) |-> Repr(v.items[k])])
            \o <<"]">>
      [] v.t = "dict" ->
            <<"{">>
            \o JoinWith(<<",", " ">>,
                   [k \in 1..Len(v.keys) |->
                       Repr(JStr(v.keys[k])) \o <<":", " ">> \o Repr(v.items[k])])
            \o <<"}">>

\* str(v)
StrOf(v) == IF v.t = "str" THEN v.s ELSE Repr(v)

----------------------------------------------------------------------------
(* _parse_llm_response *)

\* the characters of a key of the result
KeyChars(key) ==
    CASE key = "keywords" -> <<"k", "e", "y", "w", "o", "r", "d", "s">>
      [] key = "methods" -> <<"m", "e", "t", "h", "o", "d", "s">>
      [] key = "fields" -> <<"f", "i", "e", "l", "d", "s">>
      [] key = "datasets" -> <<"d", "a", "t", "a", "s", "e", "t", "s">>
      [] key = "applications" ->
            <<"a", "p", "p", "l", "i", "c", "a", "t", "i", "o", "n", "s">>

ExtractorKeys == {ExtractorOrder[i] : i \in 1..Len(ExtractorOrder)}

\* default_result: {k: [] for k in [...]}
DefaultResult == [key \in ExtractorKeys |-> <<>>]

\* s.replace(old, ""); "U0060" is the backquote
Remove(old, s) == Sub(Word(old), <<>>, s)

\* r'\{.*\}' with re.DOTALL
BracePattern == Cat(<<Lit("{"), Star(NotIn({})), Lit("}")>>)

\* re.search(r, s): [found, group], group the text of the leftmost match
SearchGroup(r, s) ==
    Bind({i \in 0..Len(s) : Ends(r, s, i) # <<>>}, LAMBDA starts :
        IF starts = {} THEN [found |-> FALSE, group |-> <<>>]
        ELSE Bind(SetMin(starts), LAMBDA i :
                [found |-> TRUE, group |-> SubSeq(s, i + 1, Ends(r, s, i)[1])]))

\* lines 98-109: the value the try block leaves in result; ok is FALSE where the
\* function returns default_result
LoadResponse(response) ==
    Bind(JsonLoads(Strip(Remove(<<"U0060", "U0060", "U0060">>,
                         Remove(<<"U0060", "U0060", "U0060", "j", "s", "o", "n">>, response)))),
         LAMBDA first :
            IF first.ok THEN first
            ELSE Bind(SearchGroup(BracePattern, response), LAMBDA json_match :
                    IF json_match.found THEN JsonLoads(json_match.group) ELSE ParseFail))

\* [str(i).strip() for i in items if i]
StrippedItems(items) ==
    LET kept == SelectSeq(items, LAMBDA i : Truthy(i))
    IN  [k \in 1..Len(kept) |-> Strip(StrOf(kept[k]))]

\* lines 111-118.  list(set(...)) gives the distinct strings in an order that the
\* hashes of the run decide; the list here has them in the order they first occur.
FinalResult(result) ==
    [key \in ExtractorKeys |->
        Bind(JsonGet(result, KeyChars(key)), LAMBDA items :
            IF items.t = "list" THEN Dedupe(StrippedItems(items.items)) ELSE <<>>)]

\* EntityExtractor._parse_llm_response(response): raised is the exception that
\* leaves the function, "" if it returns; value is what it returns.  A value that
\* is not a dict has no get().
ParseLlmResponse(response) ==
    Bind(LoadResponse(response), LAMBDA loaded :
        IF ~loaded.ok THEN [raised |-> "", value |-> DefaultResult]
        ELSE IF loaded.v.t # "dict"
        THEN [raised |-> "AttributeError", value |-> DefaultResult]
        ELSE [raised |-> "", value |-> FinalResult(loaded.v)])
----------------------------------------------------------------------------
(* The responses _parse_llm_response is called with; the comment over a  *)
(* response is its text.                                                 *)

\* a JSON object with two of the five keys:
\* {"keywords": ["rl", "arm"], "methods": ["ppo"]}
RespObject ==
    <<"{", "\"", "k", "e", "y", "w", "o", "r", "d", "s", "\"", ":", " ", "[", "\"",
      "r", "l", "\"", ",", " ", "\"", "a", "r", "m", "\"", "]", ",", " ", "\"",
      "m", "e", "t", "h", "o", "d", "s", "\"", ":", " ", "[", "\"", "p", "p", "o",
      "\"", "]", "}">>

\* the object inside a ```json fence:
\* ```json\n{"keywords": ["rl"]}\n```
RespFenced ==
    <<"U0060", "U0060", "U0060", "j", "s", "o", "n", "\n", "{", "\"", "k", "e",
      "y", "w", "o", "r", "d", "s", "\"", ":", " ", "[", "\"", "r", "l", "\"", "]",
      "}", "\n", "U0060", "U0060", "U0060">>

\* prose around the object: the first json.loads fails, the regex finds it:
\* ok: {"keywords": ["arm"]} .
RespProse ==
    <<"o", "k", ":", " ", "{", "\"", "k", "e", "y", "w", "o", "r", "d", "s", "\"",
      ":", " ", "[", "\"", "a", "r", "m", "\"", "]", "}", " ", ".">>

\* no JSON at all:
\* sorry
RespNotJson ==
    <<"s", "o", "r", "r", "y">>

\* the empty response:
\* 
RespEmpty ==
    <<>>

\* braces around what is not JSON:
\* see {x}
RespBraces ==
    <<"s", "e", "e", " ", "{", "x", "}">>

\* two objects side by side: not one JSON value, and the text from the first { to the last } is not one either:
\* {"keywords": ["rl"]} {"methods": ["ppo"]}
RespTwoObjects ==
    <<"{", "\"", "k", "e", "y", "w", "o", "r", "d", "s", "\"", ":", " ", "[", "\"",
      "r", "l", "\"", "]", "}", " ", "{", "\"", "m", "e", "t", "h", "o", "d", "s",
      "\"", ":", " ", "[", "\"", "p", "p", "o", "\"", "]", "}">>

\* valid JSON, an array:
\* ["rl", "arm"]
RespArray ==
    <<"[", "\"", "r", "l", "\"", ",", " ", "\"", "a", "r", "m", "\"", "]">>

\* valid JSON, a number:
\* 42
RespNumber ==
    <<"4", "2">>

\* valid JSON, a string:
\* "rl"
RespString ==
    <<"\"", "r", "l", "\"">>

\* valid JSON, null:
\* null
RespNull ==
    <<"n", "u", "l", "l">>

\* a value that is not a list, a key given twice, and items that are not strings, empty, or repeated:
\* {"keywords": "rl", "methods": [" ppo ", "ppo", "", 0, 7, null, true, ["x"]], "keywords": ["rl"]}
RespItems ==
    <<"{", "\"", "k", "e", "y", "w", "o", "r", "d", "s", "\"", ":", " ", "\"", "r",
      "l", "\"", ",", " ", "\"", "m", "e", "t", "h", "o", "d", "s", "\"", ":", " ",
      "[", "\"", " ", "p", "p", "o", " ", "\"", ",", " ", "\"", "p", "p", "o",
      "\"", ",", " ", "\"", "\"", ",", " ", "0", ",", " ", "7", ",", " ", "n", "u",
      "l", "l", ",", " ", "t", "r", "u", "e", ",", " ", "[", "\"", "x", "\"", "]",
      "]", ",", " ", "\"", "k", "e", "y", "w", "o", "r", "d", "s", "\"", ":", " ",
      "[", "\"", "r", "l", "\"", "]", "}">>

ResponseTexts ==
    {RespObject, RespFenced, RespProse, RespNotJson,
     RespEmpty, RespBraces, RespTwoObjects, RespArray,
     RespNumber, RespString, RespNull, RespItems}

\* _parse_llm_response on each response of ResponseTexts
ParseOf == [response \in ResponseTexts |-> ParseLlmResponse(response)]

----------------------------------------------------------------------------
(* Calls of _parse_llm_response *)

MaxParse == 2

\* a call of _parse_llm_response(response)
ParseResponse ==
    /\ Len(parse_calls) < MaxParse
    /\ \E response \in ResponseTexts :
         parse_calls' = Append(parse_calls,
            [response |-> response,
             raised |-> ParseOf[response].raised,
             value |-> ParseOf[response].value])
    /\ UNCHANGED <<kg_vars, dp_vars, extraction, retry, session, queries>>

NextParse == ParseResponse

SpecParse == Init /\ [][NextParse]_vars

----------------------------------------------------------------------------
(* Claims about _parse_llm_response *)

\* the response is one JSON object, as it stands, inside a fence, or from its first
\* "{" to its last "}"
IsJsonObject(response) ==
    LoadResponse(response).ok /\ LoadResponse(response).v.t = "dict"

ObjectOf == [response \in ResponseTexts |-> IsJsonObject(response)]

\* C21: no call of _parse_llm_response raised; each returned a record with exactly
\* the five keys, and all five lists are empty where the response is not a JSON
\* object.
C21_ParseNeverRaises ==
    \A k \in 1..Len(parse_calls) :
        /\ parse_calls[k].raised = ""
        /\ DOMAIN parse_calls[k].value = ExtractorKeys
        /\ ~ObjectOf[parse_calls[k].response] =>
              \A key \in ExtractorKeys : parse_calls[k].value[key] = <<>>

----------------------------------------------------------------------------
(* Claims about the order of the steps of split_documents *)

\* the places of the log where the method call was called
CallsOf(log, call) == SelectSeq(log, LAMBDA c : c.call = call)

\* the windows a filter answered False for, in the order of the log
PassedBy(log, call) ==
    LET passed == SelectSeq(log, LAMBDA c : c.call = call /\ ~c.verdict)
    IN  [k \in 1..Len(passed) |-> passed[k].arg[1]]

\* C22: a call of split_documents with clean=True first truncated the list it was
\* given, then cleaned each page that was left, in order, then split the cleaned
\* pages, then gave every window of the splitter to is_garbage_chunk, once and in
\* the splitter's order; is_reference_chunk saw the windows that passed, and the
\* chunks returned are the windows that passed both, unchanged and in that order.
C22_StepsInFixedOrder ==
    (dp_calls # <<>> /\ LastSplit.clean) =>
        LET log == LastSplit.log
            pages == Len(log[1].ret)
            split == log[pages + 2]
            garbage == CallsOf(log, "is_garbage_chunk")
        IN  /\ log[1].call = "remove_references_section"
            /\ log[1].arg = TextsOf(LastSplit.documents)
            /\ \A i \in 1..pages :
                  /\ log[1 + i].call = "clean_text"
                  /\ log[1 + i].arg = <<log[1].ret[i]>>
            /\ split.call = "text_splitter.split_documents"
            /\ split.arg = [i \in 1..pages |-> log[1 + i].ret[1]]
            /\ \A k \in (pages + 3)..Len(log) :
                  \/ log[k].call = "is_garbage_chunk"
                  \/ /\ log[k].call = "is_reference_chunk"
                     /\ log[k - 1].call = "is_garbage_chunk"
                     /\ log[k - 1].arg = log[k].arg
                     /\ ~log[k - 1].verdict
            /\ [k \in 1..Len(garbage) |-> garbage[k].arg[1]] = split.ret
            /\ PassedBy(log, "is_reference_chunk") = TextsOf(returned_chunks)

\* split_documents(ListDirty, clean=True) with windows of 130 characters: three
\* pages were cleaned, the splitter made more than three windows, is_garbage_chunk
\* dropped some of them, and three chunks came back
C22_Witness ==
    /\ dp_calls # <<>>
    /\ LastSplit.documents = ListDirty /\ LastSplit.clean
    /\ processor.chunk_size = 130
    /\ Len(CallsOf(LastSplit.log, "clean_text")) = 3
    /\ Len(CallsOf(LastSplit.log, "is_garbage_chunk")) > 3
    /\ \E k \in 1..Len(LastSplit.log) :
          LastSplit.log[k].call = "is_garbage_chunk" /\ LastSplit.log[k].verdict
    /\ Len(returned_chunks) = 3

----------------------------------------------------------------------------
(* extract_from_documents: the chunks, the prompts and the aggregator.  A  *)
(* chunk is a Document: its page_content and its metadata, a dict.         *)

\* lines 59-61
CHUNKS_PER_BATCH == 4
MAX_CONCURRENT_REQUESTS == 3
TARGET_BATCHES == 6

\* config.py
MAX_KEYWORDS_PER_DOC == 8
MAX_METHODS_PER_DOC == 5

\* "未知文件", the name of line 189 for a chunk without a source_file
UnknownFile == <<"U672A", "U77E5", "U6587", "U4EF6">>

\* lines 187-192: the chunks of each file, the files in the order they first occur
RECURSIVE FileDocs(_)
FileDocs(documents) ==
    IF documents = <<>> THEN EmptyDict
    ELSE LET file_docs == FileDocs(SubSeq(documents, 1, Len(documents) - 1))
             doc == documents[Len(documents)]
             source_file == DictGet(doc.metadata, "source_file", UnknownFile)
         IN  DictSet(file_docs, source_file,
                     Append(DictGet(file_docs, source_file, <<>>), doc))

Max(a, b) == IF a > b THEN a ELSE b

\* list(range(start, stop, step)) for a step above 0
Range(start, stop, step) ==
    IF stop <= start THEN <<>>
    ELSE [k \in 1..((stop - start + step - 1) \div step) |-> start + (k - 1) * step]

\* lines 137-152: selected_indices, which count the chunks from 0
SelectedIndices(total_chunks) ==
    LET target_samples == TARGET_BATCHES * CHUNKS_PER_BATCH
        remaining_samples == target_samples - 3
        step == Max(1, (total_chunks - 3) \div remaining_samples)
        selected_indices ==
            <<0, 1, 2>> \o (IF total_chunks > 3 THEN Range(3, total_chunks, step) ELSE <<>>)
    IN  SubSeq(selected_indices, 1, Min(Len(selected_indices), target_samples))

\* EntityExtractor._select_representative_chunks
SelectRepresentativeChunks(docs) ==
    LET total_chunks == Len(docs)
        inside == SelectSeq(SelectedIndices(total_chunks), LAMBDA idx : idx < total_chunks)
        texts == [k \in 1..Len(inside) |-> docs[inside[k] + 1].page_content]
        valid_chunks == SelectSeq(texts, LAMBDA text : Len(text) >= 100)
        starts == Range(0, Len(valid_chunks), CHUNKS_PER_BATCH)
    IN  [b \in 1..Len(starts) |->
            SubSeq(valid_chunks, starts[b] + 1,
                   Min(starts[b] + CHUNKS_PER_BATCH, Len(valid_chunks)))]

\* str(n) for n >= 0
RECURSIVE DecimalOf(_)
DecimalOf(n) ==
    LET digit == <<"0", "1", "2", "3", "4", "5", "6", "7", "8", "9">>[(n % 10) + 1]
    IN  IF n < 10 THEN <<digit>> ELSE Append(DecimalOf(n \div 10), digit)

\* EntityExtractor._merge_chunks with max_chars_per_chunk at its default, 1500
MergeChunks(chunks) ==
    LET truncated(i) == Strip(SubSeq(chunks[i], 1, Min(Len(chunks[i]), 1500)))
        places == SelectSeq([i \in 1..Len(chunks) |-> i], LAMBDA i : truncated(i) # <<>>)
        merged_parts ==
            [k \in 1..Len(places) |->
                <<"[", "U7247", "U6BB5", " ">> \o DecimalOf(places[k]) \o <<"]", "\n">>
                \o truncated(places[k])]
    IN  JoinWith(<<"\n", "\n", "-", "-", "-", "\n", "\n">>, merged_parts)

\* lines 207-218: a prompt is what ENTITY_EXTRACTION_PROMPT.format is given
AllPrompts(chunk_batches) ==
    [b \in 1..Len(chunk_batches) |->
        [text |-> MergeChunks(chunk_batches[b]),
         max_keywords |-> 8, max_methods |-> 6, max_fields |-> 4,
         max_datasets |-> 4, max_applications |-> 4]]

\* line 221: a Counter for each key
NewAggregator == [key \in ExtractorKeys |-> EmptyDict]

\* Counter.update(list)
RECURSIVE CounterUpdate(_, _)
CounterUpdate(counter, list) ==
    IF list = <<>> THEN counter
    ELSE CounterUpdate(DictSet(counter, Head(list), DictGet(counter, Head(list), 0) + 1),
                       Tail(list))

\* lines 237-238 and 247-248
Aggregate(aggregator, chunk_result) ==
    [key \in ExtractorKeys |-> CounterUpdate(aggregator[key], chunk_result[key])]

\* [item for item, count in counter.most_common(limit)]: the greater count first,
\* of two equal counts the one that was counted first
MostCommon(counter, limit) ==
    LET n == Len(counter.keys)
        count(k) == counter.val[counter.keys[k]]
        before(k) == {m \in 1..n : count(m) > count(k) \/ (count(m) = count(k) /\ m < k)}
        sorted == [j \in 1..n |->
                      counter.keys[CHOOSE k \in 1..n : Cardinality(before(k)) = j - 1]]
    IN  SubSeq(sorted, 1, Min(n, limit))

\* lines 253-257, for an extractor with the limits of config.py
FinalEntities(aggregator) ==
    [key \in ExtractorKeys |->
        MostCommon(aggregator[key],
                   IF key = "keywords" THEN MAX_KEYWORDS_PER_DOC * 2
                   ELSE MAX_METHODS_PER_DOC * 2)]

----------------------------------------------------------------------------
(* extract_from_documents: the run.  The LLM is the environment: a call of *)
(* llm.batch or llm.invoke raises, or returns a response for each prompt.  *)

\* lines 225: batch_prompts
BatchPrompts(ex) ==
    SubSeq(ex.all_prompts, ex.i + 1,
           Min(ex.i + MAX_CONCURRENT_REQUESTS, Len(ex.all_prompts)))

\* lines 196-221: the turn of the file loop for the f-th file starts
EnterFile(ex, f) ==
    LET docs == ex.file_docs.val[ex.file_docs.keys[f]]
        all_prompts == AllPrompts(SelectRepresentativeChunks(docs))
    IN  [ex EXCEPT !.f = f, !.all_prompts = all_prompts, !.i = 0, !.k = 0,
                   !.aggregator = NewAggregator,
                   !.added = Append(@, [p \in 1..Len(all_prompts) |-> 0])]

\* lines 253-260: results[source_file] = final_entities
FinishFile(ex) ==
    [ex EXCEPT !.results = DictSet(@, ex.file_docs.keys[ex.f], FinalEntities(ex.aggregator))]

\* the head of the loop of line 224 with i as it is: the next batch of the file, or
\* the end of the file and the next file, or the return of line 266
RECURSIVE AtBatch(_)
AtBatch(ex) ==
    IF ex.i < Len(ex.all_prompts) THEN [ex EXCEPT !.pc = "batch", !.k = 0]
    ELSE IF ex.f < Len(ex.file_docs.keys) THEN AtBatch(EnterFile(FinishFile(ex), ex.f + 1))
    ELSE [FinishFile(ex) EXCEPT !.pc = "returned", !.k = 0]

\* the loop of line 224 goes on to its next turn
NextBatch(ex) == AtBatch([ex EXCEPT !.i = @ + MAX_CONCURRENT_REQUESTS])

\* lines 237-238 and 247-248 for the response to the p-th prompt of the file
Aggregated(ex, p, chunk_result) ==
    [ex EXCEPT !.aggregator = Aggregate(@, chunk_result),
               !.added[ex.f][p] = @ + 1]

\* lines 235-238: the responses from the j-th on are parsed and aggregated, one
\* after the other; parsed[j] is what _parse_llm_response does on the j-th.  An
\* exception leaves the loop for the handler of line 240.
RECURSIVE AggregateResponses(_, _, _)
AggregateResponses(ex, parsed, j) ==
    IF j > Len(parsed) THEN NextBatch(ex)
    ELSE IF parsed[j].raised # "" THEN [ex EXCEPT !.pc = "retry", !.k = 1]
    ELSE AggregateResponses(Aggregated(ex, ex.i + j, parsed[j].value), parsed, j + 1)

\* line 243: the loop over batch_prompts goes on to its next prompt
NextPrompt(ex) ==
    IF ex.k < Len(BatchPrompts(ex)) THEN [ex EXCEPT !.k = @ + 1] ELSE NextBatch(ex)

\* a run that ends where a prompt fails a second time
AbortRun(ex) == [ex EXCEPT !.pc = "returned"]

\* lines 249-250: except: pass
SkipPrompt(ex) == NextPrompt(ex)

\* lines 245-250: the response to the k-th prompt of the batch is parsed and
\* aggregated, or the prompt is skipped if that raises
InvokeReturned(ex, parsed) ==
    IF parsed.raised # "" THEN SkipPrompt(ex)
    ELSE NextPrompt(Aggregated(ex, ex.i + ex.k, parsed.value))

\* lines 183-196: the call starts; without documents it returns {} at once
StartExtraction(ex, documents) ==
    LET started == [NoExtraction EXCEPT !.runs = ex.runs + 1, !.documents = documents,
                                        !.file_docs = FileDocs(documents)]
    IN  IF documents = <<>> THEN [started EXCEPT !.pc = "returned"]
        ELSE AtBatch(EnterFile(started, 1))

----------------------------------------------------------------------------
(* Calls of extract_from_documents *)

MaxExtractions == 1

\* a chunk of the file source_file
Doc(page_content, source_file) ==
    [page_content |-> page_content,
     metadata |-> DictSet(EmptyDict, "source_file", source_file)]

\* a chunk whose metadata has no source_file
DocNoSource(page_content) == [page_content |-> page_content, metadata |-> EmptyDict]

FileA == <<"a", ".", "p", "d", "f">>
FileB == <<"b", ".", "p", "d", "f">>

\* nine chunks of one file: three prompts, of 4, 4 and 1 chunks, in one batch
DocsNine == [n \in 1..9 |-> Doc(TextProse100, FileA)]

\* thirteen chunks of one file: four prompts, in a batch of three and a batch of one
DocsThirteen == [n \in 1..13 |-> Doc(TextProse100, FileA)]

\* three files, their chunks mixed: a.pdf with two chunks, one of them too short,
\* b.pdf with one chunk that is too short, and five chunks without a source_file
DocsThreeFiles ==
    <<Doc(TextProse100, FileA), Doc(TextProse99, FileB), DocNoSource(TextProse100),
      DocNoSource(TextProse100), Doc(TextProse99, FileA), DocNoSource(TextProse100),
      DocNoSource(TextProse100), DocNoSource(TextProse100)>>

DocumentLists == {<<>>, DocsNine, DocsThirteen, DocsThreeFiles}

\* the responses of the LLM
ExtractResponses == {RespObject, RespNotJson, RespArray}

\* the lists with the items of list in each order: list(set(...)) gives one of them
Orders(list) ==
    {[k \in 1..Len(list) |-> list[q[k]]] : q \in Permutations(1..Len(list))}

\* what _parse_llm_response can do on a response: raise, or return the value with
\* each of its lists in one of its orders
ParsedOf ==
    [response \in ExtractResponses |->
        {[response |-> response, raised |-> ParseOf[response].raised, value |-> value] :
            value \in {v \in [ExtractorKeys ->
                                UNION {Orders(ParseOf[response].value[key]) :
                                          key \in ExtractorKeys}] :
                          \A key \in ExtractorKeys :
                              v[key] \in Orders(ParseOf[response].value[key])}}]

AllParsed == UNION {ParsedOf[response] : response \in ExtractResponses}

\* the call of the LLM that is made now, in the log
Logged(ex, call, outcome, responses) ==
    [ex EXCEPT !.llm = Append(@, [call |-> call, f |-> ex.f, i |-> ex.i,
                                  outcome |-> outcome, responses |-> responses])]

\* extract_from_documents(documents) is called
ExtractFromDocuments ==
    /\ extraction.pc \in {"idle", "returned"}
    /\ extraction.runs < MaxExtractions
    /\ \E documents \in DocumentLists :
          extraction' = StartExtraction(extraction, documents)
    /\ UNCHANGED <<kg_vars, dp_vars, parse_calls, retry, session, queries>>

\* line 233: llm.batch raises
BatchRaises ==
    /\ extraction.pc = "batch"
    /\ extraction' = [Logged(extraction, "batch", "raised", <<>>)
                         EXCEPT !.pc = "retry", !.k = 1]
    /\ UNCHANGED <<kg_vars, dp_vars, parse_calls, retry, session, queries>>

\* lines 233-238: llm.batch returns a response for each prompt of the batch
BatchReturns ==
    /\ extraction.pc = "batch"
    /\ \E parsed \in [1..Len(BatchPrompts(extraction)) -> AllParsed] :
          extraction' =
              AggregateResponses(
                  Logged(extraction, "batch", "returned",
                         [j \in 1..Len(parsed) |-> parsed[j].response]),
                  parsed, 1)
    /\ UNCHANGED <<kg_vars, dp_vars, parse_calls, retry, session, queries>>

\* line 245: llm.invoke raises on the k-th prompt of the batch
InvokeRaises ==
    /\ extraction.pc = "retry"
    /\ extraction' = SkipPrompt(Logged(extraction, "invoke", "raised", <<>>))
    /\ UNCHANGED <<kg_vars, dp_vars, parse_calls, retry, session, queries>>

\* lines 245-248: llm.invoke returns a response to the k-th prompt of the batch
InvokeReturns ==
    /\ extraction.pc = "retry"
    /\ \E parsed \in AllParsed :
          extraction' =
              InvokeReturned(Logged(extraction, "invoke", "returned", <<parsed.response>>),
                             parsed)
    /\ UNCHANGED <<kg_vars, dp_vars, parse_calls, retry, session, queries>>

NextExtract ==
    \/ ExtractFromDocuments
    \/ BatchRaises
    \/ BatchReturns
    \/ InvokeRaises
    \/ InvokeReturns

SpecExtract == Init /\ [][NextExtract]_vars

----------------------------------------------------------------------------
(* Claims about extract_from_documents *)

\* the source files of a list of chunks, in the order they first occur
SourceFiles(documents) ==
    Dedupe([n \in 1..Len(documents) |->
               DictGet(documents[n].metadata, "source_file", UnknownFile)])

\* the number of prompts of the batch that starts after the i-th prompt of file f
BatchSize(ex, f, i) == Min(MAX_CONCURRENT_REQUESTS, Len(ex.added[f]) - i)

\* C23: when extract_from_documents has returned, whichever calls of the LLM
\* raised and whichever responses were malformed, its result has an entry, with the
\* five lists, for every source file of the chunks it was given; and every
\* llm.batch that raised was followed by one llm.invoke for each prompt of that
\* batch, whether or not the ones before it raised.
C23_EntryForEveryFile ==
    extraction.pc = "returned" =>
        /\ extraction.results.keys = SourceFiles(extraction.documents)
        /\ \A source_file \in DOMAIN extraction.results.val :
              DOMAIN extraction.results.val[source_file] = ExtractorKeys
        /\ \A c \in 1..Len(extraction.llm) :
              LET call == extraction.llm[c]
              IN  (call.call = "batch" /\ call.outcome = "raised") =>
                      \A n \in 1..BatchSize(extraction, call.f, call.i) :
                          /\ c + n <= Len(extraction.llm)
                          /\ extraction.llm[c + n].call = "invoke"
                          /\ extraction.llm[c + n].f = call.f
                          /\ extraction.llm[c + n].i = call.i

\* the three files: the batch of a.pdf raised and its prompt raised again, b.pdf
\* has no chunk long enough, and the batch of the third file returned; the result
\* has the three entries, the first two empty, the third with keywords
C23_Witness ==
    /\ extraction.pc = "returned"
    /\ extraction.documents = DocsThreeFiles
    /\ Len(extraction.llm) = 3
    /\ extraction.llm[1].call = "batch" /\ extraction.llm[1].outcome = "raised"
    /\ extraction.llm[2].call = "invoke" /\ extraction.llm[2].outcome = "raised"
    /\ extraction.llm[3].call = "batch" /\ extraction.llm[3].outcome = "returned"
    /\ extraction.results.keys = <<FileA, FileB, UnknownFile>>
    /\ extraction.results.val[FileA]["keywords"] = <<>>
    /\ extraction.results.val[FileB]["keywords"] = <<>>
    /\ extraction.results.val[UnknownFile]["keywords"] # <<>>

\* C29: the aggregator of a file was updated at most once with a response to each
\* of its prompts, so that no entity is counted more often than the file has
\* prompts.
C29_PromptAggregatedOnce ==
    /\ \A f \in 1..Len(extraction.added) :
          \A p \in 1..Len(extraction.added[f]) : extraction.added[f][p] <= 1
    /\ extraction.pc \in {"batch", "retry"} =>
          \A key \in ExtractorKeys :
              \A e \in DOMAIN extraction.aggregator[key].val :
                  extraction.aggregator[key].val[e] <= Len(extraction.all_prompts)

----------------------------------------------------------------------------
(***************************************************************************)
(* Model of core/embeddings.py: RateLimitedEmbeddings._call_with_retry.    *)
(* func is the environment: it returns, or raises an error with a message. *)
(* Seconds are written in tenths (3.0 is 30).                              *)
(***************************************************************************)

\* line 77: the test of the message of an error
IsRetryable(error_str) ==
    \/ Search(Word(<<"R", "P", "M", " ", "l", "i", "m", "i", "t">>), error_str)
    \/ Search(Word(<<"r", "a", "t", "e", " ", "l", "i", "m", "i", "t">>), Lower(error_str))
    \/ Search(Word(<<"4", "0", "3">>), error_str)
    \/ Search(Word(<<"t", "i", "m", "e", "o", "u", "t">>), Lower(error_str))

\* a wait that does not grow
FixedWait(retry_delay, attempt) == retry_delay

\* line 78: wait_time
WaitTime(retry_delay, attempt) == retry_delay * (attempt + 1)

\* raise None
TypeError == <<"T", "y", "p", "e", "E", "r", "r", "o", "r">>

\* lines 69-71: the call starts.  Without a turn of the loop it reaches line 86
\* with last_error None.
StartRetry(r, max_retries, retry_delay) ==
    LET started == [NoRetry EXCEPT !.runs = r.runs + 1, !.max_retries = max_retries,
                                   !.retry_delay = retry_delay]
    IN  IF max_retries > 0 THEN [started EXCEPT !.pc = "attempt"]
        ELSE [started EXCEPT !.pc = "raised", !.raised = TypeError]

\* lines 72-73: func returned
FuncReturned(r, value) ==
    [r EXCEPT !.pc = "returned", !.calls = @ + 1, !.result = value]

\* lines 74-82: func raised e
FuncRaised(r, e) ==
    LET caught == [r EXCEPT !.calls = @ + 1, !.errors = Append(@, e), !.last_error = e]
    IN  IF IsRetryable(e)
        THEN [caught EXCEPT !.pc = "sleeping",
                            !.waits = Append(@, WaitTime(r.retry_delay, r.attempt))]
        ELSE [caught EXCEPT !.pc = "raised", !.raised = e]

\* lines 80, 71 and 86: time.sleep returned; the next turn of the loop, or after
\* the last turn raise last_error
SleepReturned(r) ==
    IF r.attempt + 1 < r.max_retries
    THEN [r EXCEPT !.pc = "attempt", !.attempt = @ + 1]
    ELSE [r EXCEPT !.pc = "raised", !.attempt = @ + 1, !.raised = r.last_error]

----------------------------------------------------------------------------
(* Calls of _call_with_retry; the comment over an error is its message *)

MaxRetryRuns == 1

\* "RPM limit exceeded": has "RPM limit"
ErrRpm ==
    <<"R", "P", "M", " ", "l", "i", "m", "i", "t", " ", "e", "x", "c", "e", "e", "d", "e", "d">>

\* "Rate Limit reached": has "rate limit" once in lower case
ErrRate ==
    <<"R", "a", "t", "e", " ", "L", "i", "m", "i", "t", " ", "r", "e", "a", "c", "h", "e", "d">>

\* "Error code: 403": has "403"
Err403 ==
    <<"E", "r", "r", "o", "r", " ", "c", "o", "d", "e", ":", " ", "4", "0", "3">>

\* "Request Timeout": has "timeout" once in lower case
ErrTimeout ==
    <<"R", "e", "q", "u", "e", "s", "t", " ", "T", "i", "m", "e", "o", "u", "t">>

\* "rpm limit exceeded": has none of the four: "RPM limit" is looked for as it is written
ErrRpmLower ==
    <<"r", "p", "m", " ", "l", "i", "m", "i", "t", " ", "e", "x", "c", "e", "e", "d", "e", "d">>

\* "Error code: 401": has none of the four
ErrAuth ==
    <<"E", "r", "r", "o", "r", " ", "c", "o", "d", "e", ":", " ", "4", "0", "1">>

Errors == {ErrRpm, ErrRate, Err403, ErrTimeout, ErrRpmLower, ErrAuth}

RetryableOf == [e \in Errors |-> IsRetryable(e)]

\* the embeddings func returns
Vectors == <<"v", "e", "c", "t", "o", "r", "s">>

\* the values of max_retries, 3 in get_embedding_model
RetryCounts == 0..3

\* the values of retry_delay, 3.0 in get_embedding_model
RetryDelays == {5, 30}

\* _call_with_retry(func) on an instance with these max_retries and retry_delay
CallWithRetry ==
    /\ retry.pc \in {"idle", "returned", "raised"}
    /\ retry.runs < MaxRetryRuns
    /\ \E max_retries \in RetryCounts, retry_delay \in RetryDelays :
          retry' = StartRetry(retry, max_retries, retry_delay)
    /\ UNCHANGED <<kg_vars, dp_vars, parse_calls, extraction, session, queries>>

\* func returns
AttemptReturns ==
    /\ retry.pc = "attempt"
    /\ retry' = FuncReturned(retry, Vectors)
    /\ UNCHANGED <<kg_vars, dp_vars, parse_calls, extraction, session, queries>>

\* func raises
AttemptRaises ==
    /\ retry.pc = "attempt"
    /\ \E e \in Errors : retry' = FuncRaised(retry, e)
    /\ UNCHANGED <<kg_vars, dp_vars, parse_calls, extraction, session, queries>>

\* time.sleep returns
WakeUp ==
    /\ retry.pc = "sleeping"
    /\ retry' = SleepReturned(retry)
    /\ UNCHANGED <<kg_vars, dp_vars, parse_calls, extraction, session, queries>>

NextRetry ==
    \/ CallWithRetry
    \/ AttemptReturns
    \/ AttemptRaises
    \/ WakeUp

\* func and time.sleep come back: a call of func that is pending returns or
\* raises, a sleep that is pending ends
SpecRetry ==
    /\ Init
    /\ [][NextRetry]_vars
    /\ WF_vars(AttemptReturns \/ AttemptRaises)
    /\ WF_vars(WakeUp)

----------------------------------------------------------------------------
(* Claims about _call_with_retry *)

\* what holds of a call of _call_with_retry in each of its states
RetrySafety ==
    /\ retry.calls <= retry.max_retries
    \* func raised in every call but the one that returned, and each of those
    \* errors but the one that was raised at once can be retried
    /\ Len(retry.errors) = (IF retry.pc = "returned" THEN retry.calls - 1 ELSE retry.calls)
    /\ \A k \in 1..(Len(retry.errors) - 1) : RetryableOf[retry.errors[k]]
    \* the first call that returns ends the run with what it returned
    /\ retry.pc = "returned" => retry.result = Vectors
    \* an error that cannot be retried is raised at once, without a wait
    /\ (retry.errors # <<>> /\ ~RetryableOf[retry.errors[Len(retry.errors)]]) =>
          /\ retry.pc = "raised"
          /\ retry.raised = retry.errors[Len(retry.errors)]
          /\ Len(retry.waits) = Len(retry.errors) - 1
    \* after max_retries errors that can be retried the last one is raised
    /\ (retry.pc = "raised" /\ retry.errors # <<>>
            /\ RetryableOf[retry.errors[Len(retry.errors)]]) =>
          /\ Len(retry.errors) = retry.max_retries
          /\ retry.raised = retry.errors[retry.max_retries]
    \* the k-th wait is retry_delay * k, and func is called again after it
    /\ \A k \in 1..Len(retry.waits) : retry.waits[k] = retry.retry_delay * k
    /\ retry.pc = "attempt" => Len(retry.waits) = retry.calls

\* C24: a call of _call_with_retry calls func at most max_retries times, returns
\* what the first call that succeeds returns, raises at once an error that is not
\* a rate-limit, 403 or timeout error, raises the last error after max_retries
\* errors of those kinds, waits retry_delay * k after the k-th of them, and ends.
C24_RetryBoundedAndEnds ==
    /\ []RetrySafety
    /\ (retry.pc \in {"attempt", "sleeping"}) ~> (retry.pc \in {"returned", "raised"})

\* with max_retries 3 and retry_delay 3.0: func raised an RPM-limit error and a
\* timeout, the waits were 3.0 and 6.0 seconds, and the third call returned
C24_Witness ==
    /\ retry.pc = "returned"
    /\ retry.max_retries = 3 /\ retry.retry_delay = 30
    /\ retry.errors = <<ErrRpm, ErrTimeout>>
    /\ retry.waits = <<30, 60>>
    /\ retry.calls = 3

----------------------------------------------------------------------------
(* Queries on the graph: get_shared_entities and get_related_documents *)

\* graph.neighbors(n): the other ends of the edges of n, in the order the edges
\* were created (a self-loop gives n itself, once)
Neighbors(g, n) ==
    LET inc == SelectSeq(g.edges, LAMBDA e : e.u = n \/ e.v = n)
    IN  [i \in 1..Len(inc) |-> IF inc[i].u = n THEN inc[i].v ELSE inc[i].u]

\* set(self.graph.neighbors(n)) if n in self.graph else set()
NeighborSet(g, n) ==
    IF DictHas(g.nodes, n) THEN {Neighbors(g, n)[i] : i \in 1..Len(Neighbors(g, n))}
    ELSE {}

\* get_shared_entities: the elements of the list it returns (the list is the
\* intersection in the iteration order of a set)
GetSharedEntities(g, doc1, doc2) == NeighborSet(g, doc1) \cap NeighborSet(g, doc2)

\* the orders in which a set can be iterated
Orderings(S) ==
    {s \in [1..Cardinality(S) -> S] : \A x \in S : \E i \in 1..Cardinality(S) : s[i] = x}

\* the inner loop of get_related_documents for one entity, lines 325-330
RECURSIVE CollectNeighbors(_, _, _, _, _)
CollectNeighbors(g, doc_name, entity, neighbors, related) ==
    IF neighbors = <<>> THEN related
    ELSE LET neighbor == Head(neighbors)
             next == IF /\ neighbor # doc_name
                        /\ g.nodes.val[neighbor].node_type = NODE_TYPE_DOCUMENT
                     THEN DictSet(related, neighbor,
                              Append(DictGet(related, neighbor, <<>>), entity))
                     ELSE related
         IN  CollectNeighbors(g, doc_name, entity, Tail(neighbors), next)

\* the outer loop, lines 324-330, over the entities in the order they are iterated
RECURSIVE CollectRelated(_, _, _, _)
CollectRelated(g, doc_name, entities, related) ==
    IF entities = <<>> THEN related
    ELSE CollectRelated(g, doc_name, Tail(entities),
             CollectNeighbors(g, doc_name, Head(entities),
                              Neighbors(g, Head(entities)), related))

\* x put into a list sorted by the number of entities, largest first, behind the
\* items of equal number
RECURSIVE InsertByShared(_, _)
InsertByShared(sorted, x) ==
    IF sorted = <<>> THEN <<x>>
    ELSE IF Len(Head(sorted).entities) >= Len(x.entities)
         THEN <<Head(sorted)>> \o InsertByShared(Tail(sorted), x)
         ELSE <<x>> \o sorted

\* sorted(related.items(), key=lambda x: len(x[1]), reverse=True): stable
RECURSIVE SortedRelated(_)
SortedRelated(items) ==
    IF items = <<>> THEN <<>>
    ELSE InsertByShared(SortedRelated(SubSeq(items, 1, Len(items) - 1)), items[Len(items)])

\* get_related_documents, with the order in which set(neighbors) is iterated
GetRelatedDocuments(g, doc_name, entities) ==
    IF ~DictHas(g.nodes, doc_name) THEN <<>>
    ELSE LET related == CollectRelated(g, doc_name, entities, EmptyDict)
         IN  SortedRelated([i \in 1..Len(related.keys) |->
                 [doc |-> related.keys[i], entities |-> related.val[related.keys[i]]]])

MaxQueries == 1

\* "q", the name of a third document
Q == <<"q">>

\* the add_document calls of the runs that query the graph
RelatedCalls ==
    { [doc_name |-> d, entities |-> r] :
        d \in {<<"p">>, <<"p", ".", "p", "d", "f">>, Q},
        r \in { Ents(<<OLAF>>, <<Transformer>>, <<>>, <<>>, <<>>),
                Ents(<<OLAF>>, <<>>, <<>>, <<>>, <<>>),
                Ents(<<P>>, <<>>, <<>>, <<>>, <<>>) } }

\* the names get_related_documents is asked about: the three documents
QueryNames == {c.doc_name : c \in RelatedCalls}

\* add_document in the runs that query the graph
AddDocumentR ==
    /\ Len(calls) < MaxAdds
    /\ \E call \in RelatedCalls :
         /\ SetBuilder(AddDocumentOp(Builder, call.doc_name, call.entities))
         /\ calls' = Append(calls, call)
    /\ last' = Did("add")
    /\ UNCHANGED <<norm_calls, file, dp_vars, io_vars>>

\* a call of get_related_documents(doc_name); graph is the graph it was made on
RelatedDocuments ==
    /\ Len(queries) < MaxQueries
    /\ \E doc_name \in QueryNames :
         \E entities \in Orderings(NeighborSet(graph, doc_name)) :
            queries' = Append(queries,
                [doc_name |-> doc_name, graph |-> graph,
                 ret |-> GetRelatedDocuments(graph, doc_name, entities)])
    /\ UNCHANGED <<kg_vars, dp_vars, parse_calls, extraction, retry, session>>

NextRelated ==
    \/ AddDocumentR
    \/ RelatedDocuments

SpecRelated == Init /\ [][NextRelated]_vars

----------------------------------------------------------------------------
(* Claims about get_related_documents, checked under SpecRelated *)

\* the document nodes of g
DocumentNodes(g) ==
    {n \in DOMAIN g.nodes.val : g.nodes.val[n].node_type = NODE_TYPE_DOCUMENT}

\* the neighbours of n in g that are entity nodes
EntityNeighbors(g, n) ==
    {e \in NeighborSet(g, n) : g.nodes.val[e].node_type # NODE_TYPE_DOCUMENT}

\* the other documents that share at least one entity neighbour with doc
SharingDocuments(g, doc) ==
    {o \in DocumentNodes(g) \ {doc} :
        EntityNeighbors(g, doc) \cap EntityNeighbors(g, o) # {}}

ElementsOf(list) == {list[i] : i \in 1..Len(list)}

\* what the claim says of one call that returned ret
RelatedAsSpecified(g, doc, ret) ==
    IF ~DictHas(g.nodes, doc) THEN ret = <<>>
    ELSE /\ {ret[i].doc : i \in 1..Len(ret)} = SharingDocuments(g, doc)
         /\ \A i, j \in 1..Len(ret) : ret[i].doc = ret[j].doc => i = j
         /\ \A i \in 1..Len(ret) :
              /\ ret[i].doc # doc
              /\ g.nodes.val[ret[i].doc].node_type = NODE_TYPE_DOCUMENT
              /\ ElementsOf(ret[i].entities) = GetSharedEntities(g, doc, ret[i].doc)
              /\ Cardinality(ElementsOf(ret[i].entities)) = Len(ret[i].entities)
         /\ \A i \in 1..Len(ret) - 1 :
              Len(ret[i].entities) >= Len(ret[i + 1].entities)

\* C25: related_documents(doc) returns exactly the other document nodes that share
\* at least one entity neighbour with doc, never doc itself and never an entity
\* node, each paired with exactly the set shared_entities(doc, other), ordered by
\* non-increasing number of shared entities; for a doc that is not in the graph it
\* returns the empty list.
C25_RelatedDocuments ==
    \A q \in 1..Len(queries) :
        RelatedAsSpecified(queries[q].graph, queries[q].doc_name, queries[q].ret)

----------------------------------------------------------------------------
(* Claims about the graph, the stored lists and the counters, checked under Spec *)

\* all_entities of get_entity_sources: the lists of one document, one after another
RECURSIVE AllEntities(_, _)
AllEntities(entities, i) ==
    IF i > Len(entities.keys) THEN <<>>
    ELSE entities.val[entities.keys[i]] \o AllEntities(entities, i + 1)

\* KnowledgeGraph.get_entity_sources
GetEntitySources(b, entity_name) ==
    SelectSeq(b.document_entities.keys,
              LAMBDA doc_name :
                  InList(entity_name, AllEntities(b.document_entities.val[doc_name], 1)))

\* the documents of the stored document-entity map
StoredDocuments == ElementsOf(document_entities.keys)

\* the strings in the stored lists of document d
StoredEntities(d) == ElementsOf(AllEntities(document_entities.val[d], 1))

\* the strings that are a node or are in a stored list
KnownStrings == Nodes \cup UNION {StoredEntities(d) : d \in StoredDocuments}

\* C26: for every document d and string e the graph has an edge between d and e if
\* and only if e occurs in some category list of the stored document-entity map for
\* d, also after a document name is added a second time with a different record, so
\* entity_sources(e) equals the set of document neighbours of node e.
C26_EdgesMatchStoredLists ==
    /\ \A d \in StoredDocuments : \A e \in KnownStrings :
           HasEdge(graph, d, e) <=> e \in StoredEntities(d)
    /\ \A e \in KnownStrings :
           ElementsOf(GetEntitySources(Builder, e))
               = {n \in NeighborSet(graph, e) : NodeType(n) = NODE_TYPE_DOCUMENT}

\* the number of documents whose stored list for category cat contains e
DocumentsContaining(cat, e) ==
    Cardinality({d \in StoredDocuments :
                    InList(e, DictGet(document_entities.val[d], cat, <<>>))})

\* C27: for each category c and entity string e the counter entity_counts[c][e]
\* equals the number of documents whose stored list for c contains e; adding a
\* document name that is already present does not count that document twice.
C27_CountsMatchStoredLists ==
    \A cat \in Categories : \A e \in KnownStrings \cup ElementsOf(entity_counts[cat].keys) :
        DictGet(entity_counts[cat], e, 0) = DocumentsContaining(cat, e)

\* the category of a node type
CategoryOfType(node_type) == CHOOSE cat \in Categories : NodeTypeOf(cat) = node_type

\* C28: the node_type of each entity node agrees with the edge_type of every edge
\* incident to it, and the weight of the edge is the fixed weight of that type,
\* also when one entity string is reported under two categories.
C28_NodeTypeAgreesWithEdges ==
    \A i \in 1..Len(graph.edges) :
        \A n \in {graph.edges[i].u, graph.edges[i].v} :
            NodeType(n) # NODE_TYPE_DOCUMENT =>
                /\ graph.edges[i].edge_type = EdgeTypeOf(CategoryOfType(NodeType(n)))
                /\ graph.edges[i].weight = WeightOf(CategoryOfType(NodeType(n)))

----------------------------------------------------------------------------
(* The app: st.session_state and the handlers of app.py.  A Streamlit script   *)
(* runs one handler at a time, so each handler is one step.  The collection is *)
(* what the Chroma collection on disk holds; deleted, created, removed and     *)
(* answered are what the environment does: whether the old collection could be *)
(* deleted, whether Chroma.from_documents returned or raised, whether clear()  *)
(* got rid of the collection, whether the RAG chain returned or raised.        *)

\* VectorStoreManager.__init__
NewManager == [vector_store |-> None, embeddings |-> None]

\* the chunks process_uploaded_file returns for a file of n chunks
ChunksOfUpload(filename, n) ==
    [k \in 1..n |-> [source_file |-> filename, chunk_index |-> k - 1]]

\* VectorStoreManager.create_from_documents(documents, persist=True).  When
\* Chroma.from_documents raises, its arguments have been evaluated: the embedding
\* model is loaded again and _vector_store is still None.
CreateFromDocuments(manager, collection, documents, deleted, created) ==
    LET kept == IF deleted THEN {} ELSE collection
        stored == kept \cup ElementsOf(documents)
    IN  IF created
        THEN [raised |-> FALSE, collection |-> stored,
              manager |-> [vector_store |-> [docs |-> stored],
                           embeddings |-> [model |-> "embedding"]]]
        ELSE [raised |-> TRUE, collection |-> kept,
              manager |-> [vector_store |-> None,
                           embeddings |-> [model |-> "embedding"]]]

\* VectorStoreManager.as_retriever: TRUE when it raises ValueError
AsRetrieverRaises(manager) == manager.vector_store = None

\* VectorStoreManager.clear
ClearManager(manager, collection, removed) ==
    [manager |-> [vector_store |-> None, embeddings |-> None],
     collection |-> IF removed THEN {} ELSE collection]

\* the loop of process_uploaded_files, lines 81-103: outcome[filename] says whether
\* process_uploaded_file raises for the file, and how many chunks it returns if not
RECURSIVE ProcessFiles(_, _, _, _)
ProcessFiles(uploaded_files, outcome, all_chunks, files_info) ==
    IF uploaded_files = <<>> THEN [all_chunks |-> all_chunks, files_info |-> files_info]
    ELSE LET filename == Head(uploaded_files)
         IN  IF outcome[filename].raised
             THEN ProcessFiles(Tail(uploaded_files), outcome, all_chunks, files_info)
             ELSE ProcessFiles(Tail(uploaded_files), outcome,
                      all_chunks \o ChunksOfUpload(filename, outcome[filename].chunks),
                      Append(files_info, [name |-> filename, chunks |-> outcome[filename].chunks]))

\* process_uploaded_files
ProcessUploadedFilesOp(s, uploaded_files, outcome, deleted, created) ==
    IF uploaded_files = <<>> THEN s
    ELSE LET s1 == IF s.vector_store_manager = None
                   THEN [s EXCEPT !.vector_store_manager = NewManager]
                   ELSE s
             p == ProcessFiles(uploaded_files, outcome, <<>>, <<>>)
             c == CreateFromDocuments(s1.vector_store_manager, s1.collection,
                                      p.all_chunks, deleted, created)
         IN  IF p.all_chunks = <<>> THEN s1
             ELSE IF c.raised
                  THEN [s1 EXCEPT !.vector_store_manager = c.manager,
                                  !.collection = c.collection]
                  ELSE [s1 EXCEPT !.vector_store_manager = c.manager,
                                  !.collection = c.collection,
                                  !.documents_loaded = TRUE,
                                  !.uploaded_files_info = p.files_info,
                                  !.processed_chunks = p.all_chunks,
                                  !.knowledge_graph = NewBuilder,
                                  !.entities_extracted = FALSE]

\* [d.get("name") for d in st.session_state.uploaded_files_info], as a set
AllDocNames(s) == {s.uploaded_files_info[i].name : i \in 1..Len(s.uploaded_files_info)}

\* handle_question: what it did, and the session it leaves.  VectorStoreManager has
\* no method as_retriever_filtered, so the call of line 155 raises AttributeError.
HandleQuestionOp(s, blank, selected_docs, answered) ==
    IF blank THEN [did |-> "returned", s |-> s]
    ELSE IF ~s.documents_loaded THEN [did |-> "warning", s |-> s]
    ELSE IF selected_docs # {} /\ selected_docs # AllDocNames(s)
         THEN [did |-> "AttributeError", s |-> s]
    ELSE IF AsRetrieverRaises(s.vector_store_manager)
         THEN [did |-> "ValueError", s |-> s]
    ELSE IF ~answered THEN [did |-> "query failed", s |-> s]
    ELSE [did |-> "answered",
          s |-> [s EXCEPT !.chat_history = Append(s.chat_history, selected_docs)]]

\* the button of render_document_status, lines 194-204
ClearAllOp(s, removed) ==
    LET c == IF s.vector_store_manager # None
             THEN ClearManager(s.vector_store_manager, s.collection, removed).collection
             ELSE s.collection
    IN  [s EXCEPT !.collection = c,
                  !.vector_store_manager = None,
                  !.documents_loaded = FALSE,
                  !.uploaded_files_info = <<>>,
                  !.chat_history = <<>>,
                  !.knowledge_graph = NewBuilder,
                  !.entities_extracted = FALSE,
                  !.processed_chunks = <<>>]

MaxUploads == 2
MaxQuestions == 2

\* the lists of files the uploader hands over
UploadLists == {<<>>, <<FileA>>, <<FileB>>, <<FileA, FileB>>}

\* what process_uploaded_file does with a file: it raises, or returns so many chunks
FileOutcomes ==
    { [raised |-> TRUE, chunks |-> 0],
      [raised |-> FALSE, chunks |-> 0],
      [raised |-> FALSE, chunks |-> 2] }

\* the "process documents" button with an API key configured
ProcessUploadedFiles ==
    /\ session.uploads < MaxUploads
    /\ \E uploaded_files \in UploadLists, outcome \in [{FileA, FileB} -> FileOutcomes],
          deleted \in BOOLEAN, created \in BOOLEAN :
         session' = [ProcessUploadedFilesOp(session, uploaded_files, outcome, deleted, created)
                         EXCEPT !.uploads = session.uploads + 1]
    /\ UNCHANGED <<kg_vars, dp_vars, parse_calls, extraction, retry, queries>>

\* a question typed into the chat input or picked from the quick questions
HandleQuestion ==
    /\ session.questions < MaxQuestions
    /\ \E blank \in BOOLEAN, selected_docs \in SUBSET AllDocNames(session),
          answered \in BOOLEAN :
         LET r == HandleQuestionOp(session, blank, selected_docs, answered)
         IN  session' = [r.s EXCEPT !.questions = session.questions + 1,
                                    !.asked = Append(session.asked, r.did)]
    /\ UNCHANGED <<kg_vars, dp_vars, parse_calls, extraction, retry, queries>>

\* the "clear all documents" button, which is drawn only when documents are loaded
ClearAll ==
    /\ session.documents_loaded
    /\ \E removed \in BOOLEAN : session' = ClearAllOp(session, removed)
    /\ UNCHANGED <<kg_vars, dp_vars, parse_calls, extraction, retry, queries>>

NextSession ==
    \/ ProcessUploadedFiles
    \/ HandleQuestion
    \/ ClearAll

SpecSession == Init /\ [][NextSession]_vars

----------------------------------------------------------------------------
(* Claims about the session, checked under SpecSession *)

\* the files whose chunks the store of the session holds
StoredFiles == {d.source_file : d \in session.vector_store_manager.vector_store.docs}

\* C30: documents_loaded = True implies that the vector store manager of the
\* session exists and holds an initialized store, so that as_retriever does not
\* raise; after an upload whose index creation fails following a successful upload,
\* documents_loaded, uploaded_files_info and the vector store agree with one another.
C30_LoadedImpliesStore ==
    /\ session.documents_loaded =>
          /\ session.vector_store_manager # None
          /\ session.vector_store_manager.vector_store # None
          /\ StoredFiles = {f \in AllDocNames(session) :
                               \E i \in 1..Len(session.uploaded_files_info) :
                                   /\ session.uploaded_files_info[i].name = f
                                   /\ session.uploaded_files_info[i].chunks > 0}
    /\ ~InList("ValueError", session.asked)

====
